---- MODULE Spec2Model ----
(***************************************************************************)
(* A model of the MetaExodus replication engine.                           *)
(*                                                                         *)
(* The specifications of the module share its variables:                   *)
(*   SpecPlan     the planner (DataService.sortTablesByDependencies) on    *)
(*                every bounded table set and foreign-key result           *)
(*   SpecFixture  the planner on the four-table fixture of its tests       *)
(*   SpecLoad     one insertTableData call against a target table          *)
(*   SpecSync     one executeSync or performDryRun run on a fresh service  *)
(*   SpecConnect  one connectLocal invocation with its retries             *)
(*   SpecCli      main of the command line around a run                    *)
(*   SpecPage     the extraction of one table, request by request          *)
(*                (SpecPageLive: with every request answered)              *)
(*   SpecSchema   the calls of SchemaDiscoveryService and its cache        *)
(*   SpecEnum     the enum coercion of DataTransformationService           *)
(*   SpecSession  the calls of MetabaseService and its session             *)
(*   SpecRows     one transformTableData call on the rows of a table       *)
(*   SpecRuns     executeSync invoked again and again on one service, over *)
(*                a table listing in which names may repeat                *)
(*   SpecHandle   the statements schema inspection issues on the borrowed  *)
(*                target connection                                        *)
(***************************************************************************)
EXTENDS Integers, Sequences, FiniteSets, TLC

VARIABLES
    \* ---- planner (SpecPlan) ----
    planPc,         \* "off" | "start" | "deps" | "sorted"
    tableNames,     \* the table names handed to the planner, in discovery order
    fkRows,         \* rows of the foreign-key query: <<dependent, referenced>>
    dependencies,   \* the map built by getTableDependencies
    sorted          \* the insertion order returned by sortTablesByDependencies

planVars == <<planPc, tableNames, fkRows, dependencies, sorted>>

VARIABLES
    \* ---- loader (SpecLoad) ----
    loadPc,         \* "off" | "idle" | "returned" | "thrown"
    isInitialized,  \* DataService.isInitialized
    target,         \* rows of the target table the loader writes to
    loadTable,      \* tableName argument
    data,           \* data argument: the rows to insert
    options,        \* options argument: clearFirst, onConflict, batchSize
    faultFrom,      \* the target connection is lost from this query on (0: never)
    loadOut         \* what insertTableData returned or threw

loadVars == <<loadPc, isInitialized, target, loadTable, data, options, faultFrom, loadOut>>

VARIABLES
    \* ---- executor (SpecSync) ----
    pc,             \* "off" | "idle" | "auth" | "discover" | "clear" | "count" |
                    \* "plan" | "sync" | "analyze" | "cleanup" | "done": where
                    \* executeSync or performDryRun stands
    syncConfig,     \* SyncOrchestratorService.syncConfig
    syncStats,      \* SyncOrchestratorService.syncStats
    upstream,       \* rows of each upstream table, in the server's order
    tableCounts,    \* the map built by analyzeTableSizes
    db,             \* rows of each table of the target database
    preRun,         \* rows of each target table before executeSync was called
    idx,            \* loop index of performDataSync into the insertion order
    clearLog,       \* tables the Clear phase sent a DELETE for, in order
    rollbackLog,    \* tables performRollback sent a DELETE for, in order
    tableLog,       \* per table, what the sync loop did with it
    syncOrder,      \* the tables the sync loop has been through, in order
    result,         \* how the promise of executeSync settles; for performDryRun,
                    \* which never rejects, error is that of { success: false }
    faults,         \* environment faults the run has met so far
    mode,           \* "sync": executeSync was invoked, "dryRun": performDryRun,
                    \* "none": neither yet
    clients,        \* the pg Clients connectLocal created, each "open", "ended"
                    \* or "failed" (its connect() was rejected)
    localClient,    \* ConnectionService.localClient: an index of clients, 0 null
    sessionToken,   \* MetabaseService.sessionToken is set
    logouts,        \* calls of metabaseService.logout
    cleanups,       \* calls of cleanup
    completed,      \* the steps of the run that have completed successfully
    sent,           \* the kinds of statement the run has sent to the target
    sampled,        \* tables of which the dry run fetched a sample page
    analysis        \* what analyzePlannedChanges returned

\* the state of a run outside the data: connections, session and the logs
runVars == <<clients, localClient, sessionToken, logouts, cleanups, completed, sent,
             sampled, analysis>>

syncVars == <<pc, syncConfig, syncStats, upstream, tableCounts, db, preRun, idx,
              clearLog, rollbackLog, tableLog, syncOrder, result, faults, mode,
              runVars>>

VARIABLES
    \* ---- target connection (SpecConnect) ----
    connPc,             \* "off" | "idle" | "connecting" | "sleeping" | "returned" |
                        \* "thrown": where a connectLocal invocation stands
    retryConfig,        \* ConnectionService.retryConfig
    connectionAttempts, \* ConnectionService.connectionAttempts.get('local')
    attempts,           \* the constant `attempts` of the running connectWithRetry
    startAttempts,      \* the attempt counter when the invocation started
    tries,              \* times the invocation has run the connect step
    failures,           \* times the connect step has failed in the invocation
    sleeps              \* the delays the invocation has slept, in order

connVars == <<connPc, retryConfig, connectionAttempts, attempts, startAttempts, tries,
              failures, sleeps>>

VARIABLES
    \* ---- command line (SpecCli) ----
    cliPc,          \* "off" | "start" | "running" | "exited": where main stands
    argv,           \* process.argv.slice(2)
    credentials,    \* DB_REMOTE_USERNAME and DB_REMOTE_PASSWORD are both set
    cliOptions,     \* `options` of main: what parseArguments returned
    usage,          \* showUsage has printed the usage text
    exitCode,       \* the argument of process.exit, -1 before it is called
    interrupted     \* the process has received SIGINT

cliVars == <<cliPc, argv, credentials, cliOptions, usage, exitCode, interrupted>>

VARIABLES
    \* ---- extraction of one table (SpecPage) ----
    pagePc,         \* "off" | "idle" | "paging" | "extracted" | "loaded" |
                    \* "failed": where syncSingleTable stands
    pageUpstream,   \* rows of the upstream table, in the server's order
    pageBatchSize,  \* `batchSize` of extractAllTableData: DB_BATCH_SIZE
    pageTotalRows,  \* `totalRows`: the count the server answered
    pageOffset,     \* `offset` of the page loop
    pageAllData,    \* `allData`: the rows accumulated so far
    pageExtractedRows, \* `extractedRows`
    pageLog         \* page requests and hand-overs to the loader, in order

pageVars == <<pagePc, pageUpstream, pageBatchSize, pageTotalRows, pageOffset,
              pageAllData, pageExtractedRows, pageLog>>

VARIABLES
    \* ---- schema inspection (SpecSchema) ----
    schemaPc,       \* "off" | "ready": a SchemaDiscoveryService exists
    schemaCache,    \* SchemaDiscoveryService.schemaCache: per key the stored
                    \* result, Absent without an entry
    catalog,        \* what the target answers a schema query with now
    calls,          \* calls made so far
    lastCall        \* the last call: its key, the cache entry it found, whether
                    \* it queried, whether the query failed, whether the call
                    \* raised, what it returned

schemaVars == <<schemaPc, schemaCache, catalog, calls, lastCall>>

VARIABLES
    \* ---- enum coercion (SpecEnum) ----
    enumPc,         \* "off" | "start" | "value-done" | "row-done"
    currentValue,   \* the value of the enum column in the row
    validValues,    \* the labels of the column's enum type, in catalog order
    enumResult,     \* what transformEnumValue returned, or the value of the
                    \* column in the row transformRow returned
    transformationStats, \* DataTransformationService.transformationStats
    statsBefore,    \* transformationStats when the call was made
    defaulted       \* times the default branch of transformEnumValue has run

enumVars == <<enumPc, currentValue, validValues, enumResult, transformationStats,
              statsBefore, defaulted>>

VARIABLES
    \* ---- upstream session (SpecSession) ----
    sessPc,         \* "off" | "ready": a MetabaseService exists
    sessToken,      \* MetabaseService.sessionToken
    isAuthenticated, \* MetabaseService.isAuthenticated
    authenticatedSince, \* an authenticate call has succeeded since construction
                    \* or since the last logout
    sessCalls,      \* calls made so far
    sessLast        \* the last call: its method, whether it raised, what the
                    \* session was when it was made, what became of its request

sessionVars == <<sessPc, sessToken, isAuthenticated, authenticatedSince, sessCalls,
                 sessLast>>

VARIABLES
    \* ---- the Transformer on the rows of a table (SpecRows) ----
    trPc,           \* "off" | "start" | "done"
    trData,         \* the row objects of the `data` argument, as they are now
    trInput,        \* the row objects as they were when the call was made
    trEnumMap,      \* the enumMap argument: labels per enum type
    trResult,       \* the array transformTableData resolved with
    trStats         \* DataTransformationService.transformationStats

rowVars == <<trPc, trData, trInput, trEnumMap, trResult, trStats>>

VARIABLES
    \* ---- statements on the borrowed target connection (SpecHandle) ----
    handlePc,       \* "off" | "idle" | "awaiting": the caller awaits its call
    handleCache,    \* keys of SchemaDiscoveryService.schemaCache with an entry
    inFlight,       \* statements issued on the connection and not finished,
                    \* by cache key
    handleCalls,    \* calls made so far
    maxInFlight     \* the most statements that were in flight at once

handleVars == <<handlePc, handleCache, inFlight, handleCalls, maxInFlight>>

VARIABLES
    \* ---- executeSync again and again on one service (SpecRuns) ----
    runPc,          \* "off" | "idle" | "count" | "sync" | "settled"
    runTables,      \* what getTables lists: per table id its name and rows
    runDeps,        \* what getTableDependencies answers
    runRollback,    \* syncConfig.enableRollback
    runStats,       \* SyncOrchestratorService.syncStats
    runCounts,      \* tableCounts of the invocation, by table name
    runUncounted,   \* ids of the tables whose count failed in the invocation
    runExtracted,   \* ids of the tables the invocation has called
                    \* syncSingleTable for
    runFailedNow,   \* ids of the tables that failed in the invocation
    runIdx,         \* loop index of performDataSync into sortedTables
    runNo,          \* executeSync invocations so far
    runResult,      \* "none" | "resolved" | "rejected": how the last settled
    runRollbacks,   \* rollbacks the invocation has performed
    runFaults       \* environment faults met so far

executeVars == <<runPc, runTables, runDeps, runRollback, runStats, runCounts,
                 runUncounted, runExtracted, runFailedNow, runIdx, runNo, runResult,
                 runRollbacks, runFaults>>

\* the services that are driven on their own
serviceVars == <<pageVars, schemaVars, enumVars, sessionVars, rowVars, handleVars, executeVars>>

vars == <<planVars, loadVars, syncVars, connVars, cliVars, serviceVars>>

\* what each specification leaves alone
outsidePlan == <<loadVars, syncVars, connVars, cliVars, serviceVars>>

outsideLoad == <<planVars, syncVars, connVars, cliVars, serviceVars>>

outsideSync == <<loadVars, connVars, cliVars, serviceVars>>

outsideConn == <<planVars, loadVars, syncVars, cliVars, serviceVars>>

outsideCli == <<loadVars, connVars, serviceVars>>

outsidePage ==
    <<planVars, loadVars, syncVars, connVars, cliVars,
      schemaVars, enumVars, sessionVars, rowVars, handleVars, executeVars>>

outsideSchema ==
    <<planVars, loadVars, syncVars, connVars, cliVars,
      pageVars, enumVars, sessionVars, rowVars, handleVars, executeVars>>

outsideEnum ==
    <<planVars, loadVars, syncVars, connVars, cliVars,
      pageVars, schemaVars, sessionVars, rowVars, handleVars, executeVars>>

outsideSession ==
    <<planVars, loadVars, syncVars, connVars, cliVars,
      pageVars, schemaVars, enumVars, rowVars, handleVars, executeVars>>

outsideRows ==
    <<planVars, loadVars, syncVars, connVars, cliVars,
      pageVars, schemaVars, enumVars, sessionVars, handleVars, executeVars>>

outsideHandle ==
    <<planVars, loadVars, syncVars, connVars, cliVars,
      pageVars, schemaVars, enumVars, sessionVars, rowVars, executeVars>>

outsideRuns ==
    <<planVars, loadVars, syncVars, connVars, cliVars,
      pageVars, schemaVars, enumVars, sessionVars, rowVars, handleVars>>

(***************************************************************************)
(* Bounds                                                                  *)
(***************************************************************************)
\* table names known to the target are 1..NumNames
NumNames == 3
\* rows returned by the foreign-key query
MaxFkRows == 3

Names == 1..NumNames

\* rows handed to one insertTableData call
MaxRows == 3
\* largest batchSize option
MaxBatch == 2
\* largest page size (DB_BATCH_SIZE) of an extraction
MaxPage == 3
\* rows of the upstream table of an extraction
MaxUpstream == 5
\* calls of the schema inspection
MaxCalls == 3
\* distinct non-empty answers of the target to a schema query
MaxCatalog == 2
\* rows of one transformTableData call
MaxData == 2
\* calls that borrow the target connection
MaxHandleCalls == 3
\* tables the upstream database lists for repeated runs
MaxListing == 2
\* executeSync invocations on one service
MaxRuns == 2
\* environment faults over the invocations of one service
MaxRunFaults == 2
\* calls made on one MetabaseService
MaxSessionCalls == 4
\* labels of an enum type
MaxLabels == 2
\* largest attempt counter a connectLocal invocation can find when it starts
MaxStartAttempts == 2
\* latest query of a call at which the connection can be lost
MaxFaultAt == 3

\* tables the upstream database lists in a run
MaxTables == 2
\* environment faults met by one run: a request or statement that fails, a
\* connection that cannot be opened or is lost, a row deleted upstream
MaxFaults == 2
\* arguments on the command line
MaxArgs == 2

(***************************************************************************)
(* Generic helpers                                                         *)
(***************************************************************************)
SeqsUpTo(S, n) == UNION {[1..k -> S] : k \in 0..n}

Range(s) == {s[i] : i \in DOMAIN s}

Reverse(s) == [i \in 1..Len(s) |-> s[Len(s) + 1 - i]]

\* position of the first occurrence of x in s, 0 when absent (Array.indexOf + 1)
IndexOf(s, x) ==
    IF x \in Range(s) THEN CHOOSE i \in DOMAIN s : s[i] = x /\ \A j \in 1..(i - 1) : s[j] # x
    ELSE 0

(***************************************************************************)
(* Planner: DataService.getTableDependencies, sortTablesByDependencies     *)
(***************************************************************************)
\* rows.forEach: dependencies[row.dependent_table].push(row.referenced_table)
\* (a table with no row has no entry; dependencies[t] || [] reads it as empty)
RECURSIVE ReferencedOf(_, _)
ReferencedOf(rows, t) ==
    IF rows = <<>> THEN <<>>
    ELSE IF Head(rows)[1] = t
         THEN <<Head(rows)[2]>> \o ReferencedOf(Tail(rows), t)
         ELSE ReferencedOf(Tail(rows), t)

getTableDependencies(rows) == [t \in Names |-> ReferencedOf(rows, t)]

RECURSIVE visit(_, _, _, _)
RECURSIVE visitDeps(_, _, _, _)
RECURSIVE visitDepsUnfiltered(_, _, _, _)

\* a plausible slip: a referenced table is visited without asking whether it
\* is in the set
visitDepsUnfiltered(deps, st, names, depMap) ==
    IF deps = <<>> THEN st
    ELSE visitDepsUnfiltered(Tail(deps), visit(Head(deps), st, names, depMap),
                             names, depMap)

\* deps.forEach(dep => { if (tableNames.includes(dep)) visit(dep) })
visitDeps(deps, st, names, depMap) ==
    IF deps = <<>> THEN st
    ELSE LET st1 == IF Head(deps) \in Range(names)
                    THEN visit(Head(deps), st, names, depMap)
                    ELSE st
         IN visitDeps(Tail(deps), st1, names, depMap)

\* a plausible slip: the table is pushed before its dependencies are visited
visitPreOrder(tableName, st, names, depMap) ==
    IF tableName \in st.visiting \/ tableName \in st.visited THEN st
    ELSE LET st1 == [st EXCEPT !.visiting = @ \cup {tableName},
                               !.sorted = Append(@, tableName)]
             st2 == visitDeps(depMap[tableName], st1, names, depMap)
         IN [sorted   |-> st2.sorted,
             visited  |-> st2.visited \cup {tableName},
             visiting |-> st2.visiting \ {tableName}]

\* the closure `visit` of sortTablesByDependencies
visit(tableName, st, names, depMap) ==
    IF tableName \in st.visiting THEN st
    ELSE IF tableName \in st.visited THEN st
    ELSE LET st1 == [st EXCEPT !.visiting = @ \cup {tableName}]
             st2 == visitDeps(depMap[tableName], st1, names, depMap)
         IN [sorted   |-> Append(st2.sorted, tableName),
             visited  |-> st2.visited \cup {tableName},
             visiting |-> st2.visiting \ {tableName}]

\* tableNames.forEach(t => { if (!visited.has(t)) visit(t) })
RECURSIVE visitAll(_, _, _, _)
visitAll(rest, st, names, depMap) ==
    IF rest = <<>> THEN st
    ELSE LET st1 == IF Head(rest) \notin st.visited
                    THEN visit(Head(rest), st, names, depMap)
                    ELSE st
         IN visitAll(Tail(rest), st1, names, depMap)

\* a plausible other sort: the tables that reference no table of the set
\* come first, in discovery order, and the walk takes the others
sortIndependentFirst(names, depMap) ==
    LET Independent(t) == \A d \in Range(depMap[t]) : d \notin Range(names)
        first == SelectSeq(names, Independent)
    IN visitAll(names, [sorted |-> first, visited |-> Range(first), visiting |-> {}],
                names, depMap).sorted

sortTablesByDependencies(names, depMap) ==
    visitAll(names, [sorted |-> <<>>, visited |-> {}, visiting |-> {}],
             names, depMap).sorted

(***************************************************************************)
(* Rows and the target table                                               *)
(*                                                                         *)
(* A row maps column names to values.  The target table has the columns    *)
(* of TargetColumns: "id" is its primary key (unique, not null) and a      *)
(* check constraint rejects the name "bad".                                *)
(***************************************************************************)
Null == "<null>"

TargetColumns == <<"id", "name">>

SampleRows ==
    { [id |-> "1", name |-> "a"],
      [id |-> "2", name |-> "b"],
      [id |-> "2", name |-> "bad"],      \* violates the check constraint
      [id |-> "1", extra |-> "x"],       \* a key the target lacks, no name
      [extra |-> "x"] }                  \* no key the target has

Policies == {"error", "skip", "update"}

\* the n-th query of a call fails with a connection error
Faulty(n, from) == from > 0 /\ n >= from

\* table names whose text contains 'does not exist' or 'permission'
FatalWordNames == {0}

IdsOf(T) == {r.id : r \in T}

\* the row a parameter list stores: a column the statement omits stays null
StoredRow(cols, params) ==
    [c \in Range(TargetColumns) |->
        IF c \in Range(cols) THEN params[IndexOf(cols, c)] ELSE Null]

ViolatesConstraint(r) == r.id = Null \/ r.name = "bad"

\* ON CONFLICT DO NOTHING, row by row: a row whose id exists is skipped
RECURSIVE InsertSkipping(_, _, _)
InsertSkipping(T, rows, n) ==
    IF rows = <<>> THEN [ok |-> TRUE, rowCount |-> n, table |-> T, fault |-> FALSE]
    ELSE IF Head(rows).id \in IdsOf(T)
         THEN InsertSkipping(T, Tail(rows), n)
         ELSE InsertSkipping(T \cup {Head(rows)}, Tail(rows), n + 1)

HasDuplicateIds(rows) ==
    \E i, j \in DOMAIN rows : i < j /\ rows[i].id = rows[j].id

StatementFailed(T, fault) == [ok |-> FALSE, rowCount |-> 0, table |-> T, fault |-> fault]

\* one INSERT statement of the target engine: atomic, it either stores its
\* rows under the conflict policy and reports rowCount, or raises
ExecInsert(T, rows, onConflict) ==
    IF \E i \in DOMAIN rows : ViolatesConstraint(rows[i]) THEN StatementFailed(T, FALSE)
    ELSE IF onConflict = "skip" THEN InsertSkipping(T, rows, 0)
    ELSE IF HasDuplicateIds(rows) THEN StatementFailed(T, FALSE)
    ELSE IF onConflict = "update"
         THEN [ok |-> TRUE, rowCount |-> Len(rows), fault |-> FALSE,
               table |-> {r \in T : r.id \notin IdsOf(Range(rows))} \cup Range(rows)]
    ELSE IF \E i \in DOMAIN rows : rows[i].id \in IdsOf(T) THEN StatementFailed(T, FALSE)
    ELSE [ok |-> TRUE, rowCount |-> Len(rows), fault |-> FALSE,
          table |-> T \cup Range(rows)]

\* connection.query: the connection is lost, or the engine runs the statement
Query(T, rows, onConflict, n, from) ==
    IF Faulty(n, from) THEN StatementFailed(T, TRUE)
    ELSE ExecInsert(T, rows, onConflict)

(***************************************************************************)
(* Loader: DataService.insertBatch                                         *)
(***************************************************************************)
\* union of the keys of the rows of the batch
DataKeys(batch) == UNION {DOMAIN batch[i] : i \in DOMAIN batch}

\* a plausible slip: the keys are taken from the first row of the batch only
ValidColumnsOfFirstRow(columnNames, batch) ==
    SelectSeq(columnNames, LAMBDA col : col \in DOMAIN batch[1])

\* columnNames.filter(col => dataKeys.includes(col))
ValidColumns(columnNames, batch) ==
    SelectSeq(columnNames, LAMBDA col : col \in DataKeys(batch))

\* value preparation: undefined and '' become null (values here are scalars)
PrepareValue(row, col) ==
    IF col \notin DOMAIN row THEN Null
    ELSE IF row[col] = "" THEN Null
    ELSE row[col]

RowParams(row, cols) == [i \in DOMAIN cols |-> PrepareValue(row, cols[i])]

\* what one row of the fallback loop adds: rowsInserted += res.rowCount || 0,
\* or rowErrors.push({rowIndex: r, ...})
FallbackStep(acc, q, r) ==
    IF q.ok
    THEN [acc EXCEPT !.insertedRows = @ + q.rowCount, !.table = q.table]
    ELSE [acc EXCEPT !.rowErrors = Append(@, r), !.fault = @ \/ q.fault]

\* the per-row fallback loop of insertBatch, from row r on; query n + 1 is next
RECURSIVE FallbackRows(_, _, _, _, _, _, _)
FallbackRows(acc, batch, r, cols, onConflict, n, from) ==
    IF r > Len(batch) THEN [acc EXCEPT !.queries = n]
    ELSE FallbackRows(
            FallbackStep(acc,
                         Query(acc.table, <<StoredRow(cols, RowParams(batch[r], cols))>>,
                               onConflict, n + 1, from),
                         r),
            batch, r + 1, cols, onConflict, n + 1, from)

\* a plausible slip: the fallback counts every row it attempted as inserted
FallbackCountsAttempts(acc, batch, r, cols, onConflict, n, from) ==
    [FallbackRows(acc, batch, r, cols, onConflict, n, from)
        EXCEPT !.insertedRows = Len(batch)]

\* the catch branch of insertBatch
Fallback(acc, batch, r, cols, onConflict, n, from) ==
    FallbackRows(acc, batch, r, cols, onConflict, n, from)

\* what insertBatch reports.  threw: it raised; fellBack: the batch statement
\* failed; emptyCols: the effective column set was empty; fault: a query hit
\* the lost connection; queries: queries the call has sent so far; cols and
\* values: the column list and the parameters, row by row, of its statement
BatchOutcome(T, batch, n) ==
    [threw |-> FALSE, fellBack |-> FALSE, emptyCols |-> FALSE, fault |-> FALSE,
     insertedRows |-> 0, rowErrors |-> <<>>, size |-> Len(batch), table |-> T,
     queries |-> n, cols |-> <<>>, values |-> <<>>]

\* the statement insertBatch builds: columnsList and values
Statement(b, batch, cols) ==
    [b EXCEPT !.cols = cols,
              !.values = [i \in DOMAIN batch |-> RowParams(batch[i], cols)]]

\* the try/catch around the batch statement
AfterBatchQuery(q, T, batch, cols, onConflict, n, from) ==
    IF q.ok
    THEN [Statement(BatchOutcome(q.table, batch, n + 1), batch, cols)
             EXCEPT !.insertedRows = q.rowCount]
    ELSE Fallback([Statement(BatchOutcome(T, batch, n + 1), batch, cols)
                      EXCEPT !.fellBack = TRUE, !.fault = q.fault],
                  batch, 1, cols, onConflict, n + 1, from)

InsertBatchWith(cols, T, batch, onConflict, n, from) ==
    IF Len(batch) = 0 THEN BatchOutcome(T, batch, n)
    ELSE IF Len(cols) = 0
         THEN [BatchOutcome(T, batch, n) EXCEPT !.threw = TRUE, !.emptyCols = TRUE]
    ELSE AfterBatchQuery(
            Query(T, [i \in DOMAIN batch |-> StoredRow(cols, RowParams(batch[i], cols))],
                  onConflict, n + 1, from),
            T, batch, cols, onConflict, n, from)

\* insertBatch; n is the number of queries the call has sent so far
insertBatch(T, tableName, batch, columnNames, onConflict, n, from) ==
    InsertBatchWith(ValidColumns(columnNames, batch), T, batch, onConflict, n, from)

(***************************************************************************)
(* Loader: DataService.insertTableData                                     *)
(***************************************************************************)
Min(a, b) == IF a < b THEN a ELSE b

\* error.message.includes('does not exist') || includes('permission'), for the
\* only message insertBatch raises: it quotes the table name
IsFatalMessage(tableName, b) == b.emptyCols /\ tableName \in FatalWordNames

\* a plausible slip: batchCount++ after the insertBatch call, so that a batch
\* whose call threw is not counted
BatchStepCountingInserted(acc, b, tableName) ==
    [acc EXCEPT !.batches = IF b.threw THEN @ ELSE @ + 1,
                !.table = b.table,
                !.queries = b.queries,
                !.log = Append(@, b),
                !.insertedRows = IF b.threw THEN @ ELSE @ + b.insertedRows,
                !.errors = IF b.threw THEN Append(@, acc.batches + 1) ELSE @,
                !.threw = b.threw /\ IsFatalMessage(tableName, b)]

\* one turn of the batch loop: totalInserted += batchResult.insertedRows, or
\* errors.push({batchNumber, ...}) and a rethrow of a fatal message
BatchStep(acc, b, tableName) ==
    [acc EXCEPT !.batches = @ + 1,
                !.table = b.table,
                !.queries = b.queries,
                !.log = Append(@, b),
                !.insertedRows = IF b.threw THEN @ ELSE @ + b.insertedRows,
                !.errors = IF b.threw THEN Append(@, acc.batches + 1) ELSE @,
                !.threw = b.threw /\ IsFatalMessage(tableName, b)]

\* the batch loop of insertTableData, from offset i (0-based) on
RECURSIVE BatchLoop(_, _, _, _, _, _, _, _)
BatchLoop(acc, tableName, rows, i, columnNames, onConflict, batchSize, from) ==
    IF i >= Len(rows) \/ acc.threw THEN acc
    ELSE BatchLoop(
            BatchStep(acc,
                      insertBatch(acc.table, tableName,
                                  SubSeq(rows, i + 1, Min(i + batchSize, Len(rows))),
                                  columnNames, onConflict, acc.queries, from),
                      tableName),
            tableName, rows, i + batchSize, columnNames, onConflict, batchSize, from)

\* what insertTableData reports.  threw: it raised instead of returning;
\* log: what insertBatch did for each batch; fault: a query of the call hit
\* the lost connection
LoadOutcome(T, n) ==
    [threw |-> FALSE, insertedRows |-> 0, totalRows |-> 0, success |-> TRUE,
     batches |-> 0, errors |-> <<>>, log |-> <<>>, table |-> T, queries |-> n,
     fault |-> FALSE]

\* the return statement: success: errors.length === 0
LoadResult(res, rows) ==
    [res EXCEPT !.totalRows = Len(rows),
                !.success = (Len(res.errors) = 0),
                !.fault = \E k \in DOMAIN res.log : res.log[k].fault]

\* the body of the try block once clearFirst has been dealt with:
\* getTableColumns (query n + 1), then the batch loop
LoadBatches(T, tableName, rows, opts, n, from) ==
    IF Faulty(n + 1, from)
    THEN [LoadOutcome(T, n + 1) EXCEPT !.threw = TRUE, !.fault = TRUE]
    ELSE LoadResult(BatchLoop(LoadOutcome(T, n + 1), tableName, rows, 0, TargetColumns,
                              opts.onConflict, opts.batchSize, from),
                    rows)

insertTableData(initialized, T, tableName, rows, opts, from) ==
    IF ~initialized THEN [LoadOutcome(T, 0) EXCEPT !.threw = TRUE]
    ELSE IF Len(rows) = 0 THEN LoadOutcome(T, 0)
    ELSE IF ~opts.clearFirst THEN LoadBatches(T, tableName, rows, opts, 0, from)
    ELSE IF Faulty(1, from)
         THEN [LoadOutcome(T, 1) EXCEPT !.threw = TRUE, !.fault = TRUE]
    ELSE LoadBatches({}, tableName, rows, opts, 1, from)

(***************************************************************************)
(* Planner specification                                                   *)
(***************************************************************************)
PlanOff ==
    /\ planPc = "off"
    /\ tableNames = <<>>
    /\ fkRows = <<>>
    /\ dependencies = [t \in Names |-> <<>>]
    /\ sorted = <<>>

\* the table set is the first n names in discovery order; the remaining names
\* are tables of the target that are not in the set
PlanInit ==
    /\ planPc = "start"
    /\ tableNames \in {[i \in 1..n |-> i] : n \in 0..NumNames}
    /\ fkRows \in SeqsUpTo(Names \X Names, MaxFkRows)
    /\ dependencies = [t \in Names |-> <<>>]
    /\ sorted = <<>>

GetTableDependencies ==
    /\ planPc = "start"
    /\ dependencies' = getTableDependencies(fkRows)
    /\ planPc' = "deps"
    /\ UNCHANGED <<tableNames, fkRows, sorted>>

SortTablesByDependencies ==
    /\ planPc = "deps"
    /\ sorted' = sortTablesByDependencies(tableNames, dependencies)
    /\ planPc' = "sorted"
    /\ UNCHANGED <<tableNames, fkRows, dependencies>>

PlanNext ==
    \/ GetTableDependencies /\ UNCHANGED outsidePlan
    \/ SortTablesByDependencies /\ UNCHANGED outsidePlan

(***************************************************************************)
(* Loader specification: one insertTableData call                          *)
(***************************************************************************)
NoOut == insertTableData(TRUE, {}, 1, <<>>, [clearFirst |-> FALSE], 0)

LoadOff ==
    /\ loadPc = "off"
    /\ isInitialized = FALSE
    /\ target = {}
    /\ loadTable = 1
    /\ data = <<>>
    /\ options = [clearFirst |-> FALSE, onConflict |-> "error", batchSize |-> 1]
    /\ faultFrom = 0
    /\ loadOut = NoOut

LoadInit ==
    /\ loadPc = "idle"
    /\ isInitialized = FALSE
    /\ target \in {{}, {[id |-> "1", name |-> "old"]}}
    /\ loadTable \in {1} \cup FatalWordNames
    /\ data \in SeqsUpTo(SampleRows, MaxRows)
    /\ options \in [clearFirst : BOOLEAN, onConflict : Policies, batchSize : 1..MaxBatch]
    /\ faultFrom \in 0..MaxFaultAt
    /\ loadOut = NoOut

\* DataService.initialize (the connection service is ready)
Initialize ==
    /\ loadPc = "idle"
    /\ ~isInitialized
    /\ isInitialized' = TRUE
    /\ UNCHANGED <<loadPc, target, loadTable, data, options, faultFrom, loadOut>>

InsertTableData ==
    /\ loadPc = "idle"
    /\ LET out == insertTableData(isInitialized, target, loadTable, data, options, faultFrom)
       IN /\ loadOut' = out
          /\ target' = out.table
          /\ loadPc' = IF out.threw THEN "thrown" ELSE "returned"
    /\ UNCHANGED <<isInitialized, loadTable, data, options, faultFrom>>

LoadNext ==
    \/ Initialize /\ UNCHANGED outsideLoad
    \/ InsertTableData /\ UNCHANGED outsideLoad

(***************************************************************************)
(* Target connection: ConnectionService.connectLocal / connectWithRetry    *)
(***************************************************************************)
\* retryConfig of the constructor
DefaultRetryConfig ==
    [maxRetries |-> 3, baseDelay |-> 1000, maxDelay |-> 10000, backoffFactor |-> 2]

\* what callers pass to configureRetry()
RetryConfigSamples == {[maxDelay |-> 3000], [maxRetries |-> 5, baseDelay |-> 2000]}

\* Math.pow
RECURSIVE Pow(_, _)
Pow(b, e) == IF e = 0 THEN 1 ELSE b * Pow(b, e - 1)

\* a plausible slip: the delay is computed from the incremented counter
DelayFromNewAttempts(config, n) ==
    Min(config.baseDelay * Pow(config.backoffFactor, n + 1), config.maxDelay)

\* Math.min(baseDelay * Math.pow(backoffFactor, attempts), maxDelay)
Delay(config, n) ==
    Min(config.baseDelay * Pow(config.backoffFactor, n), config.maxDelay)

ConnOff ==
    /\ connPc = "off"
    /\ retryConfig = DefaultRetryConfig
    /\ connectionAttempts = 0
    /\ attempts = 0
    /\ startAttempts = 0
    /\ tries = 0
    /\ failures = 0
    /\ sleeps = <<>>

\* an initialized service; the counter of 'local' is 0 unless another
\* invocation is between two attempts
ConnInit ==
    /\ connPc = "idle"
    /\ retryConfig = DefaultRetryConfig
    /\ connectionAttempts \in 0..MaxStartAttempts
    /\ attempts = 0
    /\ startAttempts = connectionAttempts
    /\ tries = 0
    /\ failures = 0
    /\ sleeps = <<>>

\* configureRetry(retryConfig), before the invocation
ConfigureRetry ==
    /\ connPc = "idle"
    /\ \E config \in RetryConfigSamples :
          /\ \E k \in DOMAIN config : retryConfig[k] # config[k]
          /\ retryConfig' = [k \in DOMAIN retryConfig |->
                                IF k \in DOMAIN config THEN config[k] ELSE retryConfig[k]]
    /\ UNCHANGED <<connPc, connectionAttempts, attempts, startAttempts, tries,
                   failures, sleeps>>

\* connectLocal calls connectWithRetry, which reads the counter; so does the
\* call connectWithRetry makes to itself after the sleep
EnterConnectWithRetry ==
    /\ connPc \in {"idle", "sleeping"}
    /\ attempts' = connectionAttempts
    /\ connPc' = "connecting"
    /\ UNCHANGED <<retryConfig, connectionAttempts, startAttempts, tries, failures,
                   sleeps>>

\* the connect step succeeds: the counter is reset and the client returned
ConnectSucceeds ==
    /\ connPc = "connecting"
    /\ tries' = tries + 1
    /\ connectionAttempts' = 0
    /\ connPc' = "returned"
    /\ UNCHANGED <<retryConfig, attempts, startAttempts, failures, sleeps>>

\* the connect step fails: give up at maxRetries, else sleep and retry
ConnectFails ==
    /\ connPc = "connecting"
    /\ tries' = tries + 1
    /\ failures' = failures + 1
    /\ IF attempts + 1 >= retryConfig.maxRetries
       THEN /\ connectionAttempts' = 0
            /\ connPc' = "thrown"
            /\ UNCHANGED sleeps
       ELSE /\ connectionAttempts' = attempts + 1
            /\ sleeps' = Append(sleeps, Delay(retryConfig, attempts))
            /\ connPc' = "sleeping"
    /\ UNCHANGED <<retryConfig, attempts, startAttempts>>

ConnNext ==
    \/ ConfigureRetry /\ UNCHANGED outsideConn
    \/ EnterConnectWithRetry /\ UNCHANGED outsideConn
    \/ ConnectSucceeds /\ UNCHANGED outsideConn
    \/ ConnectFails /\ UNCHANGED outsideConn

(***************************************************************************)
(* Upstream client: MetabaseService.queryTable / extractAllTableData       *)
(***************************************************************************)
\* content of an upstream table: nothing, or two rows of which the second may
\* repeat the first one's id
UpstreamSamples ==
    { <<>>,
      <<[id |-> "1", name |-> "a"], [id |-> "2", name |-> "b"]>>,
      <<[id |-> "1", name |-> "a"], [id |-> "1", extra |-> "x"]>> }

\* the page member of the dataset query: absent (0) for offset 0
PageOf(offset, limit) == IF offset > 0 THEN offset \div limit ELSE 0

\* the rows the server answers a dataset query with: the first `limit` rows
\* when the query has no page member, else its page-th page (pages count from 1)
ServerRows(U, limit, page) ==
    IF page = 0 THEN SubSeq(U, 1, Min(limit, Len(U)))
    ELSE SubSeq(U, (page - 1) * limit + 1, Min(page * limit, Len(U)))

\* queryTable(tableId, {limit, offset}) of a reachable server: data.rows
queryTable(U, limit, offset) == ServerRows(U, limit, PageOf(offset, limit))

\* the page loop of extractAllTableData, from offset on
RECURSIVE ExtractPages(_, _, _, _, _)
ExtractPages(U, offset, totalRows, batchSize, allData) ==
    IF offset >= totalRows THEN allData
    ELSE IF Len(queryTable(U, batchSize, offset)) < batchSize
         THEN allData \o queryTable(U, batchSize, offset)
    ELSE ExtractPages(U, offset + batchSize, totalRows, batchSize,
                      allData \o queryTable(U, batchSize, offset))

\* extractAllTableData: counts the rows again, then pages through them; a
\* request the server fails makes it return success: false
extractAllTableData(U, batchSize, upstreamOk) ==
    IF ~upstreamOk THEN [success |-> FALSE, data |-> <<>>]
    ELSE [success |-> TRUE, data |-> ExtractPages(U, 0, Len(U), batchSize, <<>>)]

(***************************************************************************)
(* Transformer: DataTransformationService.transformTableData               *)
(***************************************************************************)
\* enum columns of the target table: it has none
EnumColumns == <<>>

\* `if (enumColumns.length === 0) return data;`
transformTableData(rows) ==
    IF Len(rows) = 0 \/ Len(EnumColumns) = 0 THEN rows
    ELSE [i \in DOMAIN rows |-> rows[i]]

(***************************************************************************)
(* Extraction of one table, request by request: syncSingleTable over       *)
(* MetabaseService.extractAllTableData                                     *)
(***************************************************************************)
PageOff ==
    /\ pagePc = "off"
    /\ pageUpstream = <<>>
    /\ pageBatchSize = 1
    /\ pageTotalRows = 0
    /\ pageOffset = 0
    /\ pageAllData = <<>>
    /\ pageExtractedRows = 0
    /\ pageLog = <<>>


\* an upstream table of n rows: the rows are their positions
UpstreamOf(n) == [i \in 1..n |-> i]

\* syncSingleTable is entered for a table of up to MaxUpstream rows, with
\* DB_BATCH_SIZE a positive page size
PageInit ==
    /\ pagePc = "idle"
    /\ pageUpstream \in {UpstreamOf(n) : n \in 0..MaxUpstream}
    /\ pageBatchSize \in 1..MaxPage
    /\ pageTotalRows = 0
    /\ pageOffset = 0
    /\ pageAllData = <<>>
    /\ pageExtractedRows = 0
    /\ pageLog = <<>>

\* getTableRowCount answers and the loop is entered: `offset = 0; offset < totalRows`
GetTableRowCount ==
    /\ pagePc = "idle"
    /\ pageTotalRows' = Len(pageUpstream)
    /\ pagePc' = IF 0 < Len(pageUpstream) THEN "paging" ELSE "extracted"
    /\ UNCHANGED <<pageUpstream, pageBatchSize, pageOffset, pageAllData,
                   pageExtractedRows, pageLog>>

\* the count query fails: extractAllTableData returns success: false and
\* syncSingleTable throws
GetTableRowCountFails ==
    /\ pagePc = "idle"
    /\ pagePc' = "failed"
    /\ UNCHANGED <<pageUpstream, pageBatchSize, pageTotalRows, pageOffset, pageAllData,
                   pageExtractedRows, pageLog>>

\* rows are added to or removed from the upstream table after it was counted
PageUpstreamChange ==
    /\ pagePc = "paging"
    /\ Len(pageUpstream) = pageTotalRows
    /\ \E n \in 0..MaxUpstream :
          /\ n # pageTotalRows
          /\ pageUpstream' = UpstreamOf(n)
    /\ UNCHANGED <<pagePc, pageBatchSize, pageTotalRows, pageOffset, pageAllData,
                   pageExtractedRows, pageLog>>

\* a log entry: the n-th page was requested, or its rows were handed to the loader
Requested(n, len) == [op |-> "request", page |-> n, rows |-> len]

Handed(n, len) == [op |-> "handed", page |-> n, rows |-> len]

Requests(log) == SelectSeq(log, LAMBDA e : e.op = "request")

\* the loop goes round again after a page of len rows:
\* `if (batchData.length < batchSize) break;` then `offset += batchSize`
\* and `offset < totalRows`
KeepsPagingWhileRowsCome(len, off, limit, total) == len > 0

KeepsPaging(len, off, limit, total) == ~(len < limit) /\ off + limit < total

\* the log entry of the next request, which the server answers
Request(log, U, limit, off) ==
    Requested(Len(Requests(log)) + 1, Len(queryTable(U, limit, off)))

\* what one round of the loop does with the page the server answered
TakePage(batchData, log) ==
    /\ pageAllData' = pageAllData \o batchData
    /\ pageExtractedRows' = pageExtractedRows + Len(batchData)
    /\ pageLog' = log
    /\ IF KeepsPaging(Len(batchData), pageOffset, pageBatchSize, pageTotalRows)
       THEN pageOffset' = pageOffset + pageBatchSize /\ pagePc' = "paging"
       ELSE pageOffset' = pageOffset /\ pagePc' = "extracted"

\* a round of the page loop that hands the rows of its page over at once
FetchPageStreaming ==
    /\ pagePc = "paging"
    /\ TakePage(queryTable(pageUpstream, pageBatchSize, pageOffset),
                pageLog \o <<Request(pageLog, pageUpstream, pageBatchSize, pageOffset),
                             Handed(Len(Requests(pageLog)) + 1, 0)>>)
    /\ UNCHANGED <<pageUpstream, pageBatchSize, pageTotalRows>>

\* one round of the page loop: queryTable, concat, break or step. No onBatch
\* is passed by syncSingleTable
FetchPage ==
    /\ pagePc = "paging"
    /\ TakePage(queryTable(pageUpstream, pageBatchSize, pageOffset),
                Append(pageLog, Request(pageLog, pageUpstream, pageBatchSize, pageOffset)))
    /\ UNCHANGED <<pageUpstream, pageBatchSize, pageTotalRows>>

\* queryTable returns success: false: `Batch extraction failed`, caught, so
\* extractAllTableData returns success: false and syncSingleTable throws
FetchPageFails ==
    /\ pagePc = "paging"
    /\ pagePc' = "failed"
    /\ pageLog' = Append(pageLog, Requested(Len(Requests(pageLog)) + 1, 0))
    /\ UNCHANGED <<pageUpstream, pageBatchSize, pageTotalRows, pageOffset, pageAllData,
                   pageExtractedRows>>

\* the hand-over of the requested pages, in order
RECURSIVE HandOver(_, _)
HandOver(reqs, log) ==
    IF reqs = <<>> THEN log
    ELSE HandOver(Tail(reqs), Append(log, Handed(Head(reqs).page, Head(reqs).rows)))

\* the rest of syncSingleTable: nothing extracted throws `No data returned`,
\* else all rows are transformed by one transformTableData call and handed to
\* one insertTableData call
TransformAndLoad ==
    /\ pagePc = "extracted"
    /\ IF Len(pageAllData) = 0
       THEN pagePc' = "failed" /\ UNCHANGED pageLog
       ELSE /\ pagePc' = "loaded"
            /\ pageLog' = HandOver(Requests(pageLog), pageLog)
    /\ UNCHANGED <<pageUpstream, pageBatchSize, pageTotalRows, pageOffset, pageAllData,
                   pageExtractedRows>>

PageNext ==
    \/ GetTableRowCount /\ UNCHANGED outsidePage
    \/ GetTableRowCountFails /\ UNCHANGED outsidePage
    \/ PageUpstreamChange /\ UNCHANGED outsidePage
    \/ FetchPage /\ UNCHANGED outsidePage
    \/ FetchPageFails /\ UNCHANGED outsidePage
    \/ TransformAndLoad /\ UNCHANGED outsidePage

(***************************************************************************)
(* Schema inspection: SchemaDiscoveryService, and the foreign-key query of *)
(* the Discover phase, DataService.getTableDependencies                    *)
(***************************************************************************)
\* the keys of schemaCache: 'enums', 'tables', `table_${t}`, `fk_${t}`
EnumsKey == <<"enums", 0>>

TablesKey == <<"tables", 0>>

TableKey(t) == <<"table", t>>

FkKey(t) == <<"fk", t>>

SchemaKeys ==
    {EnumsKey, TablesKey} \cup {TableKey(t) : t \in 1..MaxTables}
                         \cup {FkKey(t) : t \in 1..MaxTables}

\* the query of getTableDependencies, which has no cache entry
EdgesKey == <<"edges", 0>>

\* schemaCache.has(key) is false
Absent == -1

\* `{}` or `[]`: no rows
Empty == 0

NoCall ==
    [key |-> <<"none", 0>>, known |-> Absent, queried |-> FALSE, failed |-> FALSE,
     raised |-> FALSE, result |-> Empty]

SchemaOff ==
    /\ schemaPc = "off"
    /\ schemaCache = [k \in SchemaKeys |-> Absent]
    /\ catalog = Empty
    /\ calls = 0
    /\ lastCall = NoCall


\* `new SchemaDiscoveryService()`: an empty cache
SchemaInit ==
    /\ schemaPc = "ready"
    /\ schemaCache = [k \in SchemaKeys |-> Absent]
    /\ catalog \in Empty..MaxCatalog
    /\ calls = 0
    /\ lastCall = NoCall

\* the schema of the target is altered
CatalogChange ==
    /\ schemaPc = "ready"
    /\ \E c \in Empty..MaxCatalog : c # catalog /\ catalog' = c
    /\ UNCHANGED <<schemaPc, schemaCache, calls, lastCall>>

\* `return this.schemaCache.get(cacheKey)`
FromCache(key) ==
    [key |-> key, known |-> schemaCache[key], queried |-> FALSE, failed |-> FALSE,
     raised |-> FALSE, result |-> schemaCache[key]]

\* the query answered: its rows are returned
Answered(key, rows) ==
    [key |-> key, known |-> schemaCache[key], queried |-> TRUE, failed |-> FALSE,
     raised |-> FALSE, result |-> rows]

\* getTableDependencies returns the map built from the rows
Fetched(key, rows) ==
    [key |-> key, known |-> Absent, queried |-> TRUE, failed |-> FALSE,
     raised |-> FALSE, result |-> rows]

\* `throw new Error(...)` in the catch block of getTableDependencies
Rethrown(key) ==
    [key |-> key, known |-> Absent, queried |-> TRUE, failed |-> TRUE,
     raised |-> TRUE, result |-> Empty]

\* the catch blocks of SchemaDiscoveryService: logger.warn, `return {}` or `[]`
RaisedOnError(key) ==
    [key |-> key, known |-> schemaCache[key], queried |-> TRUE, failed |-> TRUE,
     raised |-> TRUE, result |-> Empty]

EmptyOnError(key) ==
    [key |-> key, known |-> schemaCache[key], queried |-> TRUE, failed |-> TRUE,
     raised |-> FALSE, result |-> Empty]

\* connection.query, then schemaCache.set(key, rows); a query that raises
\* leaves the cache alone
QueryAndStore(key) ==
    \/ /\ schemaCache' = [schemaCache EXCEPT ![key] = catalog]
       /\ lastCall' = Answered(key, catalog)
    \/ /\ lastCall' = EmptyOnError(key)
       /\ UNCHANGED schemaCache

\* `if (this.schemaCache.has(cacheKey)) return this.schemaCache.get(cacheKey);`
\* before the query
CachedQuery(key) ==
    IF schemaCache[key] # Absent
    THEN lastCall' = FromCache(key) /\ UNCHANGED schemaCache
    ELSE QueryAndStore(key)

Call ==
    /\ schemaPc = "ready"
    /\ calls < MaxCalls
    /\ calls' = calls + 1
    /\ UNCHANGED <<schemaPc, catalog>>

\* discoverEnumValues: queries, stores the catalog under 'enums'
DiscoverEnumValues == Call /\ QueryAndStore(EnumsKey)

DiscoverTableSchema == Call /\ \E t \in 1..MaxTables : CachedQuery(TableKey(t))

DiscoverForeignKeys == Call /\ \E t \in 1..MaxTables : CachedQuery(FkKey(t))

DiscoverTables == Call /\ CachedQuery(TablesKey)

\* clearCache(key): schemaCache.delete(key), or schemaCache.clear() without a key
ClearCache ==
    /\ schemaPc = "ready"
    /\ \/ \E key \in SchemaKeys :
             schemaCache' = [schemaCache EXCEPT ![key] = Absent]
       \/ schemaCache' = [k \in SchemaKeys |-> Absent]
    /\ schemaCache' # schemaCache
    /\ lastCall' = NoCall
    /\ UNCHANGED <<schemaPc, catalog, calls>>

\* DataService.getTableDependencies, the foreign-key query discoverAndAnalyze
\* awaits: no cache, and a query that raises is thrown on
QueryTableDependencies ==
    /\ Call
    /\ \/ lastCall' = Fetched(EdgesKey, catalog)
       \/ lastCall' = Rethrown(EdgesKey)
    /\ UNCHANGED schemaCache

SchemaNext ==
    \/ CatalogChange /\ UNCHANGED outsideSchema
    \/ DiscoverEnumValues /\ UNCHANGED outsideSchema
    \/ DiscoverTableSchema /\ UNCHANGED outsideSchema
    \/ DiscoverForeignKeys /\ UNCHANGED outsideSchema
    \/ DiscoverTables /\ UNCHANGED outsideSchema
    \/ ClearCache /\ UNCHANGED outsideSchema
    \/ QueryTableDependencies /\ UNCHANGED outsideSchema

(***************************************************************************)
(* Enum coercion: DataTransformationService.transformRow and               *)
(* transformEnumValue.  A text is the sequence of its characters           *)
(***************************************************************************)
\* `null`, and the `undefined` of Array.prototype.find and of a missing key
EnumNull == <<"<null>">>

Undefined == <<"<undefined>">>

\* String.prototype.toLowerCase on the letters A-Z
LowerCase ==
    { <<"A", "a">>, <<"B", "b">>, <<"C", "c">>, <<"D", "d">>, <<"E", "e">>, <<"F", "f">>, <<"G", "g">>,
      <<"H", "h">>, <<"I", "i">>, <<"J", "j">>, <<"K", "k">>, <<"L", "l">>, <<"M", "m">>, <<"N", "n">>,
      <<"O", "o">>, <<"P", "p">>, <<"Q", "q">>, <<"R", "r">>, <<"S", "s">>, <<"T", "t">>, <<"U", "u">>,
      <<"V", "v">>, <<"W", "w">>, <<"X", "x">>, <<"Y", "y">>, <<"Z", "z">> }

LowerChar(c) ==
    IF \E p \in LowerCase : p[1] = c
    THEN (CHOOSE p \in LowerCase : p[1] = c)[2]
    ELSE c

toLowerCase(s) == [i \in DOMAIN s |-> LowerChar(s[i])]

\* String.prototype.includes: sub occurs in s; the empty text occurs in every text
StringIncludes(s, sub) ==
    \E k \in 0..(Len(s) - Len(sub)) : SubSeq(s, k + 1, k + Len(sub)) = sub

\* Array.prototype.includes
ArrayIncludes(arr, x) == \E i \in DOMAIN arr : arr[i] = x

\* Array.prototype.find over the positions that satisfy the callback
Find(arr, hits) ==
    IF hits = {} THEN Undefined
    ELSE arr[CHOOSE i \in hits : \A j \in hits : i <= j]

\* the truth value `if (x)` gives a text, null or undefined
Truthy(x) == x # Undefined /\ x # EnumNull /\ x # <<>>

\* getCommonEnumMappings
CommonEnumMappings ==
    { <<<<"a", "c", "t", "i", "v", "i", "t", "y">>,
        <<"I", "N", "D", "I", "V", "I", "D", "U", "A", "L">>>>,
      <<<<"u", "s", "e", "r">>,
        <<"I", "N", "D", "I", "V", "I", "D", "U", "A", "L">>>>,
      <<<<"i", "n", "d", "i", "v", "i", "d", "u", "a", "l">>,
        <<"I", "N", "D", "I", "V", "I", "D", "U", "A", "L">>>>,
      <<<<"g", "r", "o", "u", "p">>,
        <<"G", "R", "O", "U", "P">>>>,
      <<<<"a", "l", "l">>,
        <<"A", "L", "L">>>>,
      <<<<"e", "v", "e", "r", "y", "o", "n", "e">>,
        <<"A", "L", "L">>>>,
      <<<<"e", "v", "e", "n", "t", "_", "d", "e", "t", "a", "i", "l", "s">>,
        <<"E", "V", "E", "N", "T">>>>,
      <<<<"e", "v", "e", "n", "t">>,
        <<"E", "V", "E", "N", "T">>>>,
      <<<<"n", "e", "w", "s", "_", "d", "e", "t", "a", "i", "l", "s">>,
        <<"N", "E", "W", "S">>>>,
      <<<<"n", "e", "w", "s">>,
        <<"N", "E", "W", "S">>>>,
      <<<<"p", "r", "o", "f", "i", "l", "e">>,
        <<"P", "R", "O", "F", "I", "L", "E">>>>,
      <<<<"h", "o", "m", "e">>,
        <<"H", "O", "M", "E">>>>,
      <<<<"d", "a", "s", "h", "b", "o", "a", "r", "d">>,
        <<"H", "O", "M", "E">>>>,
      <<<<"a", "c", "t", "i", "v", "e">>,
        <<"A", "C", "T", "I", "V", "E">>>>,
      <<<<"i", "n", "a", "c", "t", "i", "v", "e">>,
        <<"I", "N", "A", "C", "T", "I", "V", "E">>>>,
      <<<<"e", "n", "a", "b", "l", "e", "d">>,
        <<"A", "C", "T", "I", "V", "E">>>>,
      <<<<"d", "i", "s", "a", "b", "l", "e", "d">>,
        <<"I", "N", "A", "C", "T", "I", "V", "E">>>>,
      <<<<"o", "n">>,
        <<"A", "C", "T", "I", "V", "E">>>>,
      <<<<"o", "f", "f">>,
        <<"I", "N", "A", "C", "T", "I", "V", "E">>>>,
      <<<<"t", "r", "u", "e">>,
        <<"T", "R", "U", "E">>>>,
      <<<<"f", "a", "l", "s", "e">>,
        <<"F", "A", "L", "S", "E">>>>,
      <<<<"y", "e", "s">>,
        <<"T", "R", "U", "E">>>>,
      <<<<"n", "o">>,
        <<"F", "A", "L", "S", "E">>>>,
      <<<<"1">>,
        <<"T", "R", "U", "E">>>>,
      <<<<"0">>,
        <<"F", "A", "L", "S", "E">>>> }

\* commonMappings[key]
MappedValue(key) ==
    IF \E p \in CommonEnumMappings : p[1] = key
    THEN (CHOOSE p \in CommonEnumMappings : p[1] = key)[2]
    ELSE Undefined

CaseInsensitiveHits(v, valid) ==
    {i \in DOMAIN valid : toLowerCase(valid[i]) = toLowerCase(v)}

PartialHits(v, valid) ==
    {i \in DOMAIN valid :
        \/ StringIncludes(toLowerCase(valid[i]), toLowerCase(v))
        \/ StringIncludes(toLowerCase(v), toLowerCase(valid[i]))}

\* what a call returns, whether it counted a null transformation, whether
\* it took the default branch
Returns(v) == [value |-> v, nulled |-> FALSE, defaulted |-> FALSE]

\* the last steps: common mapping, first valid value, null
MapOrDefault(v, valid) ==
    IF /\ Truthy(MappedValue(toLowerCase(v)))
       /\ ArrayIncludes(valid, MappedValue(toLowerCase(v)))
    THEN Returns(MappedValue(toLowerCase(v)))
    ELSE IF Len(valid) > 0 THEN [Returns(valid[1]) EXCEPT !.defaulted = TRUE]
    ELSE [Returns(EnumNull) EXCEPT !.nulled = TRUE]

\* transformEnumValue(currentValue, validValues, tableName, columnName)
transformEnumValue(v, valid) ==
    IF ArrayIncludes(valid, v) THEN Returns(v)
    ELSE IF Truthy(Find(valid, CaseInsensitiveHits(v, valid)))
         THEN Returns(Find(valid, CaseInsensitiveHits(v, valid)))
    ELSE IF Truthy(Find(valid, PartialHits(v, valid)))
         THEN Returns(Find(valid, PartialHits(v, valid)))
    ELSE MapOrDefault(v, valid)

\* texts a source column holds
TextSamples ==
    { <<"A", "C", "T", "I", "V", "E">>,
      <<"a", "c", "t", "i", "v", "e">>,
      <<"i", "n", "a", "c", "t", "i", "v", "e">>,
      <<"A", "C", "T">>,
      <<"o", "n">>,
      <<"y", "e", "s">>,
      <<"u", "n", "k", "n", "o", "w", "n">>,
      <<>> }

\* labels an enum type of the target may have; a label may be empty
LabelSamples ==
    { <<"A", "C", "T", "I", "V", "E">>,
      <<"I", "N", "A", "C", "T", "I", "V", "E">>,
      <<"T", "R", "U", "E">>,
      <<>> }

\* enum types of up to MaxLabels distinct labels
Catalogs ==
    UNION { {c \in [1..n -> LabelSamples] : \A i, j \in 1..n : c[i] = c[j] => i = j} :
            n \in 0..MaxLabels }

NoTransformations ==
    [totalTransformations |-> 0, enumTransformations |-> 0, nullTransformations |-> 0,
     typeConversions |-> 0]

EnumOff ==
    /\ enumPc = "off"
    /\ currentValue = EnumNull
    /\ validValues = <<>>
    /\ enumResult = Undefined
    /\ transformationStats = NoTransformations
    /\ statsBefore = NoTransformations
    /\ defaulted = 0

\* a new service about to meet the value of an enum column
EnumInit ==
    /\ enumPc = "start"
    /\ currentValue \in TextSamples \cup {EnumNull}
    /\ validValues \in Catalogs
    /\ enumResult = Undefined
    /\ transformationStats = NoTransformations
    /\ statsBefore = NoTransformations
    /\ defaulted = 0

\* transformationStats after a call of transformEnumValue
CountNull(stats, out) ==
    IF out.nulled
    THEN [stats EXCEPT !.nullTransformations = stats.nullTransformations + 1]
    ELSE stats

\* the default branch has run once more
CountDefault(out) == defaulted' = IF out.defaulted THEN defaulted + 1 ELSE defaulted

\* transformEnumValue called on its own with a text
TransformEnumValue ==
    /\ enumPc = "start"
    /\ currentValue # EnumNull
    /\ enumResult' = transformEnumValue(currentValue, validValues).value
    /\ CountDefault(transformEnumValue(currentValue, validValues))
    /\ transformationStats' =
           CountNull(transformationStats, transformEnumValue(currentValue, validValues))
    /\ statsBefore' = transformationStats
    /\ enumPc' = "value-done"
    /\ UNCHANGED <<currentValue, validValues>>

\* transformationStats after transformRow replaced the value of the column
CountEnum(stats) ==
    [stats EXCEPT !.enumTransformations = stats.enumTransformations + 1,
                  !.totalTransformations = stats.totalTransformations + 1]

\* transformRow on a row with one enum column: a value that is null or a
\* label stays, any other is replaced by what transformEnumValue returns
TransformRow ==
    /\ enumPc = "start"
    /\ IF currentValue # EnumNull /\ ~ArrayIncludes(validValues, currentValue)
       THEN /\ enumResult' = transformEnumValue(currentValue, validValues).value
            /\ CountDefault(transformEnumValue(currentValue, validValues))
            /\ transformationStats' =
                   CountEnum(CountNull(transformationStats,
                                       transformEnumValue(currentValue, validValues)))
       ELSE /\ enumResult' = currentValue
            /\ UNCHANGED defaulted
            /\ transformationStats' =
                   [transformationStats EXCEPT
                       !.totalTransformations = transformationStats.totalTransformations + 1]
    /\ statsBefore' = transformationStats
    /\ enumPc' = "row-done"
    /\ UNCHANGED <<currentValue, validValues>>

\* `data.map(row => this.transformRow(...))` of transformTableData goes on
\* to the next row, of up to MaxRows
NextRow ==
    /\ enumPc = "row-done"
    /\ transformationStats.totalTransformations < MaxRows
    /\ currentValue' \in TextSamples \cup {EnumNull}
    /\ enumPc' = "start"
    /\ UNCHANGED <<validValues, enumResult, transformationStats, statsBefore, defaulted>>

EnumNext ==
    \/ TransformEnumValue /\ UNCHANGED outsideEnum
    \/ TransformRow /\ UNCHANGED outsideEnum
    \/ NextRow /\ UNCHANGED outsideEnum

(***************************************************************************)
(* Upstream session: MetabaseService.authenticate, the methods that need a *)
(* session, and logout                                                     *)
(***************************************************************************)
\* the ids POST /api/session may answer with: `response.data.id`
SessionIds == { <<"a">>, <<"b">>, <<>>, Undefined }

\* the methods that start with `if (!this.isAuthenticated) throw`
NeedSession ==
    { "getDatabaseInfo", "getTables", "queryTable", "getTableRowCount",
      "extractAllTableData" }

NoSessionCall ==
    [method |-> "none", raised |-> FALSE, error |-> "", success |-> FALSE,
     since |-> FALSE, deleteSent |-> FALSE, deleteFailed |-> FALSE]

SessionOff ==
    /\ sessPc = "off"
    /\ sessToken = EnumNull
    /\ isAuthenticated = FALSE
    /\ authenticatedSince = FALSE
    /\ sessCalls = 0
    /\ sessLast = NoSessionCall

\* constructor
SessionInit ==
    /\ sessPc = "ready"
    /\ sessToken = EnumNull
    /\ isAuthenticated = FALSE
    /\ authenticatedSince = FALSE
    /\ sessCalls = 0
    /\ sessLast = NoSessionCall

SessionCall(method) ==
    [NoSessionCall EXCEPT !.method = method, !.since = authenticatedSince]

\* authenticate, answered with a session id
Authenticate ==
    /\ sessPc = "ready"
    /\ sessCalls < MaxSessionCalls
    /\ \E id \in SessionIds :
          /\ sessToken' = id
          /\ isAuthenticated' = TRUE
    /\ authenticatedSince' = TRUE
    /\ sessCalls' = sessCalls + 1
    /\ sessLast' = [SessionCall("authenticate") EXCEPT !.success = TRUE]
    /\ UNCHANGED sessPc

\* authenticate, the request failing: `catch (error) { return { success: false`
AuthenticateFails ==
    /\ sessPc = "ready"
    /\ sessCalls < MaxSessionCalls
    /\ sessCalls' = sessCalls + 1
    /\ sessLast' = SessionCall("authenticate")
    /\ UNCHANGED <<sessPc, sessToken, isAuthenticated, authenticatedSince>>

\* `if (!this.isAuthenticated) throw new Error('Not authenticated. ...')`
\* in front of the try block of the method
Guarded(call, answered) ==
    IF ~isAuthenticated
    THEN [call EXCEPT !.raised = TRUE, !.error = "Not authenticated"]
    ELSE [call EXCEPT !.success = answered]

\* getDatabaseInfo, getTables, queryTable, getTableRowCount, extractAllTableData:
\* what follows the check returns { success } and does not touch the session
CallWithSession ==
    /\ sessPc = "ready"
    /\ sessCalls < MaxSessionCalls
    /\ \E method \in NeedSession, answered \in BOOLEAN :
          sessLast' = Guarded(SessionCall(method), answered)
    /\ sessCalls' = sessCalls + 1
    /\ UNCHANGED <<sessPc, sessToken, isAuthenticated, authenticatedSince>>

\* the session a logout leaves whose request did not go through
SessionKeptOnError(failed) ==
    IF failed THEN [sessionToken |-> sessToken, isAuthenticated |-> isAuthenticated]
    ELSE [sessionToken |-> EnumNull, isAuthenticated |-> FALSE]

\* `this.sessionToken = null; this.isAuthenticated = false;` after the try
SessionCleared(failed) ==
    [sessionToken |-> EnumNull, isAuthenticated |-> FALSE]

\* logout: DELETE /api/session `if (this.sessionToken)`, its error swallowed
Logout ==
    /\ sessPc = "ready"
    /\ sessCalls < MaxSessionCalls
    /\ \E failed \in (IF Truthy(sessToken) THEN BOOLEAN ELSE {FALSE}) :
          /\ sessLast' = [SessionCall("logout") EXCEPT
                             !.deleteSent = Truthy(sessToken),
                             !.deleteFailed = failed,
                             !.success = TRUE]
          /\ sessToken' = SessionCleared(failed).sessionToken
          /\ isAuthenticated' = SessionCleared(failed).isAuthenticated
    /\ authenticatedSince' = FALSE
    /\ sessCalls' = sessCalls + 1
    /\ UNCHANGED sessPc

SessionNext ==
    \/ Authenticate /\ UNCHANGED outsideSession
    \/ AuthenticateFails /\ UNCHANGED outsideSession
    \/ CallWithSession /\ UNCHANGED outsideSession
    \/ Logout /\ UNCHANGED outsideSession

(***************************************************************************)
(* Transformer on rows: DataTransformationService.transformTableData and   *)
(* transformRow                                                            *)
(***************************************************************************)
\* what discoverTableSchema answers for the table: a text column and a column
\* of the enum type status_enum
RowSchema ==
    << [column_name |-> "name", udt_name |-> "text"],
       [column_name |-> "status", udt_name |-> "status_enum"] >>

\* values a column of an upstream row holds: null, undefined, texts
RowValues ==
    { EnumNull, Undefined, <<"a", "c", "t", "i", "v", "e">>, <<"A", "C", "T", "I", "V", "E">> }

\* upstream rows: objects with some of the columns of the table
RowSamples == UNION { [keys -> RowValues] : keys \in SUBSET {"name", "status"} }

\* enumMap: no enum type at all, or status_enum with its labels
EnumMapSamples ==
    { <<>> } \cup
    { [t \in {"status_enum"} |-> labels] :
        labels \in { <<>>,
                     << <<"I", "N", "A", "C", "T", "I", "V", "E">> >>,
                     << <<"A", "C", "T", "I", "V", "E">>,
                        <<"I", "N", "A", "C", "T", "I", "V", "E">> >> } }

RowsOff ==
    /\ trPc = "off"
    /\ trData = <<>>
    /\ trInput = <<>>
    /\ trEnumMap = <<>>
    /\ trResult = <<>>
    /\ trStats = NoTransformations

\* a new service is handed up to MaxData rows
RowsInit ==
    /\ trPc = "start"
    /\ trData \in SeqsUpTo(RowSamples, MaxData)
    /\ trInput = trData
    /\ trEnumMap \in EnumMapSamples
    /\ trResult = <<>>
    /\ trStats = NoTransformations

\* obj[k], undefined without the key
Get(obj, k) == IF k \in DOMAIN obj THEN obj[k] ELSE Undefined

\* obj[k] = v
Assign(obj, k, v) == [x \in DOMAIN obj \cup {k} |-> IF x = k THEN v ELSE obj[x]]

\* enumMap[enumName] || []
LabelsOf(enumMap, enumName) ==
    IF enumName \in DOMAIN enumMap THEN enumMap[enumName] ELSE <<>>

\* schema.filter(col => col.udt_name && enumMap[col.udt_name])
EnumColumnsOf(schema, enumMap) ==
    SelectSeq(schema, LAMBDA col : col.udt_name \in DOMAIN enumMap)

\* a slip: every value that is not a label is coerced, null and undefined too
NotALabel(value, valid) == ~ArrayIncludes(valid, value)

\* `transformedRow[columnName] !== null && transformedRow[columnName] !==
\* undefined` and `!validValues.includes(currentValue)`
NeedsCoercion(value, valid) ==
    /\ value # EnumNull
    /\ value # Undefined
    /\ ~ArrayIncludes(valid, value)

\* the row and the counts after `enumColumns.forEach(col => ...)` from cols on
RECURSIVE CoerceColumns(_, _, _)
CoerceColumns(acc, cols, enumMap) ==
    IF cols = <<>> THEN acc
    ELSE IF NeedsCoercion(Get(acc.row, Head(cols).column_name),
                          LabelsOf(enumMap, Head(cols).udt_name))
    THEN CoerceColumns(
            [row |-> Assign(acc.row, Head(cols).column_name,
                            transformEnumValue(Get(acc.row, Head(cols).column_name),
                                               LabelsOf(enumMap, Head(cols).udt_name)).value),
             stats |-> CountNull(
                          [acc.stats EXCEPT !.enumTransformations = @ + 1],
                          transformEnumValue(Get(acc.row, Head(cols).column_name),
                                             LabelsOf(enumMap, Head(cols).udt_name)))],
            Tail(cols), enumMap)
    ELSE CoerceColumns(acc, Tail(cols), enumMap)

\* transformRow(row, enumColumns, enumMap): `{ ...row }`, the enum columns,
\* totalTransformations++
transformRow(row, enumColumns, enumMap, stats) ==
    [CoerceColumns([row |-> row, stats |-> stats], enumColumns, enumMap) EXCEPT
        !.stats.totalTransformations = @ + 1]

\* data.map(row => this.transformRow(...)) from row i on
RECURSIVE MapRows(_, _, _, _, _)
MapRows(rowData, i, enumColumns, enumMap, acc) ==
    IF i > Len(rowData) THEN acc
    ELSE MapRows(rowData, i + 1, enumColumns, enumMap,
                 [rows |-> Append(acc.rows,
                                  transformRow(rowData[i], enumColumns, enumMap, acc.stats).row),
                  stats |-> transformRow(rowData[i], enumColumns, enumMap, acc.stats).stats])

\* transformTableData with the schema it found: data itself when it is empty
\* or the table has no enum column
transformTableDataWith(rowData, schema, enumMap, stats) ==
    IF Len(rowData) = 0 THEN [rows |-> rowData, stats |-> stats]
    ELSE IF Len(EnumColumnsOf(schema, enumMap)) = 0 THEN [rows |-> rowData, stats |-> stats]
    ELSE MapRows(rowData, 1, EnumColumnsOf(schema, enumMap), enumMap,
                 [rows |-> <<>>, stats |-> stats])

\* the row objects of the argument after the call: transformRow assigns to
\* `transformedRow = { ...row }`, never to row
InputAfter(input, out) == input

\* transformTableData, the schema query answered
TransformTableData ==
    /\ trPc = "start"
    /\ trResult' = transformTableDataWith(trData, RowSchema, trEnumMap, trStats).rows
    /\ trStats' = transformTableDataWith(trData, RowSchema, trEnumMap, trStats).stats
    /\ trData' = InputAfter(trData,
                            transformTableDataWith(trData, RowSchema, trEnumMap, trStats).rows)
    /\ trPc' = "done"
    /\ UNCHANGED <<trInput, trEnumMap>>

\* transformTableData, the schema query failing: discoverTableSchema answers []
TransformTableDataNoSchema ==
    /\ trPc = "start"
    /\ trResult' = transformTableDataWith(trData, <<>>, trEnumMap, trStats).rows
    /\ trStats' = transformTableDataWith(trData, <<>>, trEnumMap, trStats).stats
    /\ trData' = InputAfter(trData,
                            transformTableDataWith(trData, <<>>, trEnumMap, trStats).rows)
    /\ trPc' = "done"
    /\ UNCHANGED <<trInput, trEnumMap>>

RowsNext ==
    \/ TransformTableData /\ UNCHANGED outsideRows
    \/ TransformTableDataNoSchema /\ UNCHANGED outsideRows

(***************************************************************************)
(* Statements on the borrowed connection: SchemaDiscoveryService called    *)
(* with the connection of the Executor                                     *)
(***************************************************************************)
HandleOff ==
    /\ handlePc = "off"
    /\ handleCache = {}
    /\ inFlight = {}
    /\ handleCalls = 0
    /\ maxInFlight = 0

\* a new SchemaDiscoveryService and a connected Client with nothing pending
HandleInit ==
    /\ handlePc = "idle"
    /\ handleCache = {}
    /\ inFlight = {}
    /\ handleCalls = 0
    /\ maxInFlight = 0

\* the statements a discover method has issued when it reaches its await:
\* none on a cache hit, else `connection.query(query, [tableName])`
Issued(key) == IF key \in handleCache THEN {} ELSE {key}

\* a slip: the second method is called once the first has been awaited, so
\* that only the statement of the first is issued by the call
IssuedInTurn(first, second) == Issued(first)

\* `Promise.all([a(connection, ...), b(connection, ...)])`: both methods are
\* called, each running up to its await, before anything is awaited
IssuedTogether(first, second) == Issued(first) \cup Issued(second)

Max(a, b) == IF a > b THEN a ELSE b

\* the caller has called and awaits; the statements are on the connection
Issue(statements) ==
    /\ handlePc = "idle"
    /\ handleCalls < MaxHandleCalls
    /\ handleCalls' = handleCalls + 1
    /\ inFlight' = statements
    /\ maxInFlight' = Max(maxInFlight, Cardinality(statements))
    /\ handlePc' = "awaiting"
    /\ UNCHANGED handleCache

\* `await schemaDiscoveryService.getTableSchemaInfo(localConnection, table.name)`
GetTableSchemaInfo ==
    \E t \in 1..MaxTables : Issue(IssuedTogether(TableKey(t), FkKey(t)))

\* `await schemaDiscoveryService.discoverTableSchema(connection, tableName)`
\* of transformTableData
AwaitTableSchema == \E t \in 1..MaxTables : Issue(Issued(TableKey(t)))

\* a statement finishes: `this.schemaCache.set(cacheKey, result.rows)`
StatementAnswered ==
    /\ handlePc = "awaiting"
    /\ \E key \in inFlight :
          /\ inFlight' = inFlight \ {key}
          /\ handleCache' = handleCache \cup {key}
    /\ UNCHANGED <<handlePc, handleCalls, maxInFlight>>

\* a statement fails: the method answers [] and stores nothing
StatementFails ==
    /\ handlePc = "awaiting"
    /\ \E key \in inFlight : inFlight' = inFlight \ {key}
    /\ UNCHANGED <<handlePc, handleCache, handleCalls, maxInFlight>>

\* every promise of the call is settled: the caller goes on
CallReturns ==
    /\ handlePc = "awaiting"
    /\ inFlight = {}
    /\ handlePc' = "idle"
    /\ UNCHANGED <<handleCache, inFlight, handleCalls, maxInFlight>>

\* clearCache
HandleClearCache ==
    /\ handlePc = "idle"
    /\ handleCache # {}
    /\ handleCache' = {}
    /\ UNCHANGED <<handlePc, inFlight, handleCalls, maxInFlight>>

HandleNext ==
    \/ GetTableSchemaInfo /\ UNCHANGED outsideHandle
    \/ AwaitTableSchema /\ UNCHANGED outsideHandle
    \/ StatementAnswered /\ UNCHANGED outsideHandle
    \/ StatementFails /\ UNCHANGED outsideHandle
    \/ CallReturns /\ UNCHANGED outsideHandle
    \/ HandleClearCache /\ UNCHANGED outsideHandle

(***************************************************************************)
(* Executor: SyncOrchestratorService                                       *)
(***************************************************************************)
\* syncConfig of the constructor (batchSize: DB_BATCH_SIZE)
DefaultConfig ==
    [batchSize |-> MaxBatch, onConflict |-> "error", enableRollback |-> TRUE,
     enableTransformation |-> TRUE]

\* what callers pass to configure(): a conflict policy, or the switches of
\* --ignore-errors
ConfigSamples ==
    {[onConflict |-> p] : p \in Policies \ {DefaultConfig.onConflict}}
        \cup {[enableRollback |-> FALSE, continueOnError |-> TRUE]}

\* { ...this.syncConfig, ...config }
Merge(a, b) ==
    [k \in DOMAIN a \cup DOMAIN b |-> IF k \in DOMAIN b THEN b[k] ELSE a[k]]

NoStats ==
    [totalTables |-> 0, successfulTables |-> 0, failedTables |-> <<>>,
     totalRows |-> 0, syncedRows |-> 0]

\* how one turn of the sync loop ended for a table.  threw: syncSingleTable
\* raised; why: its message; extracted: extractResult.data.length; inserted:
\* insertResult.insertedRows; loaded: insertTableData returned success: true
TableOutcome(T) ==
    [done |-> TRUE, threw |-> FALSE, why |-> "", extracted |-> 0, inserted |-> 0,
     loaded |-> FALSE, table |-> T]

NotProcessed == [TableOutcome({}) EXCEPT !.done = FALSE]

\* a plausible slip: the row-count verification is left out
CheckInsertUnverified(ins, extracted) ==
    IF ins.threw
    THEN [TableOutcome(ins.table) EXCEPT !.threw = TRUE, !.why = "insert-threw",
                                         !.extracted = extracted,
                                         !.inserted = ins.insertedRows]
    ELSE IF ~ins.success
    THEN [TableOutcome(ins.table) EXCEPT !.threw = TRUE, !.why = "insert-failed",
                                         !.extracted = extracted,
                                         !.inserted = ins.insertedRows]
    ELSE [TableOutcome(ins.table) EXCEPT !.extracted = extracted, !.loaded = TRUE,
                                         !.inserted = ins.insertedRows]

\* the checks of syncSingleTable on the insert result
CheckInsert(ins, extracted) ==
    IF ins.threw
    THEN [TableOutcome(ins.table) EXCEPT !.threw = TRUE, !.why = "insert-threw",
                                         !.extracted = extracted,
                                         !.inserted = ins.insertedRows]
    ELSE IF ~ins.success
    THEN [TableOutcome(ins.table) EXCEPT !.threw = TRUE, !.why = "insert-failed",
                                         !.extracted = extracted,
                                         !.inserted = ins.insertedRows]
    ELSE IF ins.insertedRows # extracted
    THEN [TableOutcome(ins.table) EXCEPT !.threw = TRUE, !.why = "row-count-mismatch",
                                         !.extracted = extracted, !.loaded = TRUE,
                                         !.inserted = ins.insertedRows]
    ELSE [TableOutcome(ins.table) EXCEPT !.extracted = extracted, !.loaded = TRUE,
                                         !.inserted = ins.insertedRows]

\* syncSingleTable once the extract result is in
AfterExtract(ex, T, tableName, config, from) ==
    IF ~ex.success \/ Len(ex.data) = 0
    THEN [TableOutcome(T) EXCEPT !.threw = TRUE, !.why = "extract-failed"]
    ELSE CheckInsert(insertTableData(TRUE, T, tableName, transformTableData(ex.data),
                                     [clearFirst |-> FALSE,
                                      onConflict |-> config.onConflict,
                                      batchSize |-> config.batchSize],
                                     from),
                     Len(ex.data))

syncSingleTable(T, tableName, U, config, upstreamOk, from) ==
    AfterExtract(extractAllTableData(U, MaxBatch, upstreamOk), T, tableName, config, from)

\* insertion order of performDataSync; its reverse in Clear and rollback
InsertionOrder == sortTablesByDependencies(tableNames, dependencies)

\* a plausible slip: `.reverse()` is left out
ClearingOrderUnreversed == InsertionOrder

ClearingOrder == Reverse(InsertionOrder)

\* the tables at which the environment can still fail a statement or request
FaultSets == {S \in SUBSET Range(tableNames) : faults + Cardinality(S) <= MaxFaults}

\* DELETE FROM each table of `cleared`
Deleted(d, cleared) == [t \in Names |-> IF t \in cleared THEN {} ELSE d[t]]

RECURSIVE SumCounts(_, _)
SumCounts(counts, S) ==
    IF S = {} THEN 0
    ELSE LET t == CHOOSE x \in S : TRUE
         IN counts[t] + SumCounts(counts, S \ {t})

\* the CLI: executeSync resolving ends in process.exit(0), throwing in
\* exit(1); performDryRun returning success: false ends in exit(1)
ExitCode ==
    IF mode = "dryRun"
    THEN IF result.error # "none" THEN 1 ELSE 0
    ELSE IF result.state = "resolved" THEN 0 ELSE 1

\* the methods MetabaseService defines
MetabaseMethods ==
    {"authenticate", "getDatabaseInfo", "getTables", "queryTable", "getTableRowCount",
     "extractAllTableData", "logout"}

\* rows of the sample page the dry run asks for: { limit: 10 }
SampleLimit == 10

\* analyzePlannedChanges before its loop; potentialIssues in loop order
NoAnalysis ==
    [success |-> TRUE, tablesWithData |-> 0, totalRowsToSync |-> 0, schemaChanges |-> 0,
     dataTransformations |-> 0, potentialIssues |-> <<>>]

SyncOff ==
    /\ pc = "off"
    /\ mode = "none"
    /\ clients = <<>>
    /\ localClient = 0
    /\ sessionToken = FALSE
    /\ logouts = 0
    /\ cleanups = 0
    /\ completed = {}
    /\ sent = {}
    /\ sampled = {}
    /\ analysis = NoAnalysis
    /\ syncConfig = DefaultConfig
    /\ syncStats = NoStats
    /\ upstream = [t \in Names |-> <<>>]
    /\ tableCounts = [t \in Names |-> 0]
    /\ db = [t \in Names |-> {}]
    /\ preRun = [t \in Names |-> {}]
    /\ idx = 0
    /\ clearLog = <<>>
    /\ rollbackLog = <<>>
    /\ tableLog = [t \in Names |-> NotProcessed]
    /\ syncOrder = <<>>
    /\ result = [state |-> "running", error |-> "none"]
    /\ faults = 0

\* no command line: the services are driven directly
CliOff ==
    /\ cliPc = "off"
    /\ argv = <<>>
    /\ credentials = FALSE
    /\ cliOptions = [dryRun |-> FALSE, showHelp |-> FALSE]
    /\ usage = FALSE
    /\ exitCode = -1
    /\ interrupted = FALSE

(***************************************************************************)
(* Executor, from invocation to invocation: executeSync on one service     *)
(* over a table listing in which names may repeat.  What syncSingleTable   *)
(* does to the rows is left to the executor specification above.           *)
(***************************************************************************)
\* listings of up to MaxListing tables: the id of a table is its place; two
\* tables of different schemas may have one name; a table has rows or not
ListingSamples ==
    SeqsUpTo([name : 1..MaxTables, rows : 0..1], MaxListing)

RunsOff ==
    /\ runPc = "off"
    /\ runTables = <<>>
    /\ runDeps = [t \in Names |-> <<>>]
    /\ runRollback = TRUE
    /\ runStats = NoStats
    /\ runCounts = [t \in Names |-> 0]
    /\ runUncounted = {}
    /\ runExtracted = {}
    /\ runFailedNow = {}
    /\ runIdx = 0
    /\ runNo = 0
    /\ runResult = "none"
    /\ runRollbacks = 0
    /\ runFaults = 0

\* `new SyncOrchestratorService()`, configured or not with enableRollback off
RunsInit ==
    /\ runPc = "idle"
    /\ runTables \in ListingSamples
    /\ runDeps \in {getTableDependencies(<<>>), getTableDependencies(<< <<1, 2>> >>)}
    /\ runRollback \in BOOLEAN
    /\ runStats = NoStats
    /\ runCounts = [t \in Names |-> 0]
    /\ runUncounted = {}
    /\ runExtracted = {}
    /\ runFailedNow = {}
    /\ runIdx = 0
    /\ runNo = 0
    /\ runResult = "none"
    /\ runRollbacks = 0
    /\ runFaults = 0

\* tables.map(t => t.name)
TableNamesOf(tables) == [i \in DOMAIN tables |-> tables[i].name]

\* insertionOrder.map(name => tables.find(t => t.name === name)).filter(Boolean),
\* as table ids
SortedTables(tables, deps) ==
    SelectSeq(
        [i \in DOMAIN sortTablesByDependencies(TableNamesOf(tables), deps) |->
            IndexOf(TableNamesOf(tables),
                    sortTablesByDependencies(TableNamesOf(tables), deps)[i])],
        LAMBDA id : id > 0)

\* the loop of analyzeTableSizes from table i on:
\* `tableCounts[table.name] = countResult.success ? countResult.count : 0`
RECURSIVE CountTables(_, _, _, _)
CountTables(tables, i, failed, counts) ==
    IF i > Len(tables) THEN counts
    ELSE CountTables(tables, i + 1, failed,
                     [counts EXCEPT ![tables[i].name] =
                         IF i \in failed THEN 0 ELSE tables[i].rows])

\* the environment fails n more times
RunSpend(n) ==
    /\ runFaults + n <= MaxRunFaults
    /\ runFaults' = runFaults + n

\* the promise of executeSync settles: catch and finally have run
Settle(how) ==
    /\ runResult' = how
    /\ runPc' = "settled"

\* executeSync is invoked and gets through authenticateAndConnect,
\* discoverAndAnalyze and clearExistingData: syncStats is as the last
\* invocation left it but for startTime and totalTables
RunExecuteSync ==
    /\ runPc \in {"idle", "settled"}
    /\ runNo < MaxRuns
    /\ runNo' = runNo + 1
    /\ runStats' = [runStats EXCEPT !.totalTables = Len(runTables)]
    /\ runCounts' = [t \in Names |-> 0]
    /\ runUncounted' = {}
    /\ runExtracted' = {}
    /\ runFailedNow' = {}
    /\ runIdx' = 0
    /\ runRollbacks' = 0
    /\ runResult' = "none"
    /\ runPc' = "count"
    /\ UNCHANGED <<runTables, runDeps, runRollback, runFaults>>

\* executeSync is invoked and one of its first three phases throws, before or
\* after the tables were listed
RunExecuteSyncFails ==
    /\ runPc \in {"idle", "settled"}
    /\ runNo < MaxRuns
    /\ RunSpend(1)
    /\ runNo' = runNo + 1
    /\ \E listed \in BOOLEAN :
          runStats' = IF listed THEN [runStats EXCEPT !.totalTables = Len(runTables)]
                      ELSE runStats
    /\ runCounts' = [t \in Names |-> 0]
    /\ runUncounted' = {}
    /\ runExtracted' = {}
    /\ runFailedNow' = {}
    /\ runIdx' = 0
    /\ runRollbacks' = 0
    /\ Settle("rejected")
    /\ UNCHANGED <<runTables, runDeps, runRollback>>

\* analyzeTableSizes, then the head of performDataSync: connectLocal and the
\* insertion order
RunAnalyzeTableSizes ==
    /\ runPc = "count"
    /\ \E failed \in SUBSET DOMAIN runTables :
          /\ RunSpend(Cardinality(failed))
          /\ runUncounted' = failed
          /\ runCounts' = CountTables(runTables, 1, failed, [t \in Names |-> 0])
          /\ runStats' = [runStats EXCEPT !.totalRows = SumCounts(runCounts', Names)]
    /\ runIdx' = 1
    /\ runPc' = "sync"
    /\ UNCHANGED <<runTables, runDeps, runRollback, runExtracted, runFailedNow, runNo,
                   runResult, runRollbacks>>

\* the table of the current turn of the loop
RunCurrent == SortedTables(runTables, runDeps)[runIdx]

\* `this.syncStats.successfulTables++`, after syncSingleTable has added the
\* rows it inserted to syncedRows
TableSucceeded(stats, rows) ==
    [stats EXCEPT !.successfulTables = @ + 1, !.syncedRows = @ + rows]

\* `this.syncStats.failedTables.push({ name: table.name, ... })`
TableFailed(stats, name) == [stats EXCEPT !.failedTables = Append(@, name)]

\* one turn of the loop of performDataSync: a table counted as empty is a
\* success without any work; any other goes to syncSingleTable, which throws
\* when nothing is extracted ('No data returned') or the environment fails
RunSyncTable ==
    /\ runPc = "sync"
    /\ runIdx <= Len(SortedTables(runTables, runDeps))
    /\ IF runCounts[runTables[RunCurrent].name] = 0
       THEN /\ RunSpend(0)
            /\ runStats' = TableSucceeded(runStats, 0)
            /\ UNCHANGED <<runExtracted, runFailedNow>>
       ELSE /\ runExtracted' = runExtracted \cup {RunCurrent}
            /\ \/ /\ runTables[RunCurrent].rows > 0
                  /\ RunSpend(0)
                  /\ runStats' = TableSucceeded(runStats, runTables[RunCurrent].rows)
                  /\ UNCHANGED runFailedNow
               \/ /\ RunSpend(IF runTables[RunCurrent].rows > 0 THEN 1 ELSE 0)
                  /\ runStats' = TableFailed(runStats, runTables[RunCurrent].name)
                  /\ runFailedNow' = runFailedNow \cup {RunCurrent}
    /\ runIdx' = runIdx + 1
    /\ UNCHANGED <<runPc, runTables, runDeps, runRollback, runCounts, runUncounted, runNo,
                   runResult, runRollbacks>>

\* a slip of the reading: only the failures of this invocation are looked at
FailedInInvocation(stats, now) == Cardinality(now)

\* `this.syncStats.failedTables.length`
FailedTablesLength(stats, now) == Len(stats.failedTables)

\* after the loop, `if (this.syncStats.failedTables.length > 0)`:
\* handleSyncFailures rolls back when enableRollback is set and throws
RunHandleSyncFailures ==
    /\ runPc = "sync"
    /\ runIdx > Len(SortedTables(runTables, runDeps))
    /\ FailedTablesLength(runStats, runFailedNow) > 0
    /\ runRollbacks' = IF runRollback THEN runRollbacks + 1 ELSE runRollbacks
    /\ Settle("rejected")
    /\ UNCHANGED <<runTables, runDeps, runRollback, runStats, runCounts, runUncounted,
                   runExtracted, runFailedNow, runIdx, runNo, runFaults>>

\* after the loop without a failed table: finalizeSynchronization
RunFinalizeSynchronization ==
    /\ runPc = "sync"
    /\ runIdx > Len(SortedTables(runTables, runDeps))
    /\ FailedTablesLength(runStats, runFailedNow) = 0
    /\ Settle("resolved")
    /\ UNCHANGED <<runTables, runDeps, runRollback, runStats, runCounts, runUncounted,
                   runExtracted, runFailedNow, runIdx, runNo, runRollbacks, runFaults>>

RunsNext ==
    \/ RunExecuteSync /\ UNCHANGED outsideRuns
    \/ RunExecuteSyncFails /\ UNCHANGED outsideRuns
    \/ RunAnalyzeTableSizes /\ UNCHANGED outsideRuns
    \/ RunSyncTable /\ UNCHANGED outsideRuns
    \/ RunHandleSyncFailures /\ UNCHANGED outsideRuns
    \/ RunFinalizeSynchronization /\ UNCHANGED outsideRuns

ServicesOff == PageOff /\ SchemaOff /\ EnumOff /\ SessionOff /\ RowsOff /\ HandleOff /\ RunsOff

(***************************************************************************)
(* Planner on the four-table fixture: users, orders, products, order_items *)
(***************************************************************************)
Users == 1

Orders == 2

Products == 3

OrderItems == 4

FixtureTables == {Users, Orders, Products, OrderItems}

\* orders -> users, order_items -> orders, order_items -> products
FixtureEdges == {<<Orders, Users>>, <<OrderItems, Orders>>, <<OrderItems, Products>>}

\* the four tables in any discovery order, the three foreign-key rows in any
\* order of the query result
FixtureInit ==
    /\ planPc = "start"
    /\ tableNames \in {p \in [1..4 -> FixtureTables] : Range(p) = FixtureTables}
    /\ fkRows \in {p \in [1..3 -> FixtureEdges] : Range(p) = FixtureEdges}
    /\ dependencies = [t \in FixtureTables |-> <<>>]
    /\ sorted = <<>>

\* getTableDependencies over the tables of the fixture
FixtureDependencies ==
    /\ planPc = "start"
    /\ dependencies' = [t \in FixtureTables |-> ReferencedOf(fkRows, t)]
    /\ planPc' = "deps"
    /\ UNCHANGED <<tableNames, fkRows, sorted>>

LoadStart == LoadInit /\ PlanOff /\ SyncOff /\ ConnOff /\ CliOff /\ ServicesOff

SpecLoad == LoadStart /\ [][LoadNext]_vars

PlanStart == PlanInit /\ LoadOff /\ SyncOff /\ ConnOff /\ CliOff /\ ServicesOff

SpecPlan == PlanStart /\ [][PlanNext]_vars

FixtureNext ==
    \/ FixtureDependencies /\ UNCHANGED outsidePlan
    \/ SortTablesByDependencies /\ UNCHANGED outsidePlan

FixtureStart == FixtureInit /\ LoadOff /\ SyncOff /\ ConnOff /\ CliOff /\ ServicesOff

SpecFixture == FixtureStart /\ [][FixtureNext]_vars

PageStart ==
    PageInit /\ PlanOff /\ LoadOff /\ SyncOff /\ ConnOff /\ CliOff /\ SchemaOff /\ EnumOff /\ SessionOff /\ RowsOff /\ HandleOff /\ RunsOff

SpecPage == PageStart /\ [][PageNext]_vars

SchemaStart ==
    SchemaInit /\ PlanOff /\ LoadOff /\ SyncOff /\ ConnOff /\ CliOff /\ PageOff /\ EnumOff /\ SessionOff /\ RowsOff /\ HandleOff /\ RunsOff

SpecSchema == SchemaStart /\ [][SchemaNext]_vars

EnumStart ==
    EnumInit /\ PlanOff /\ LoadOff /\ SyncOff /\ ConnOff /\ CliOff /\ PageOff /\ SchemaOff /\ SessionOff /\ RowsOff /\ HandleOff /\ RunsOff

SpecEnum == EnumStart /\ [][EnumNext]_vars

SessionStart ==
    SessionInit /\ PlanOff /\ LoadOff /\ SyncOff /\ ConnOff /\ CliOff /\ PageOff /\ SchemaOff /\ EnumOff /\ RowsOff /\ HandleOff /\ RunsOff

SpecSession == SessionStart /\ [][SessionNext]_vars

RowsStart ==
    RowsInit /\ PlanOff /\ LoadOff /\ SyncOff /\ ConnOff /\ CliOff /\ PageOff /\ SchemaOff /\ EnumOff /\ SessionOff /\ HandleOff /\ RunsOff

SpecRows == RowsStart /\ [][RowsNext]_vars

HandleStart ==
    HandleInit /\ PlanOff /\ LoadOff /\ SyncOff /\ ConnOff /\ CliOff /\ PageOff /\ SchemaOff /\ EnumOff /\ SessionOff /\ RowsOff /\ RunsOff

SpecHandle == HandleStart /\ [][HandleNext]_vars

RunsStart ==
    RunsInit /\ PlanOff /\ LoadOff /\ SyncOff /\ ConnOff /\ CliOff /\ PageOff /\ SchemaOff /\ EnumOff /\ SessionOff /\ RowsOff /\ HandleOff

SpecRuns == RunsStart /\ [][RunsNext]_vars

\* every request to the server is answered or fails
PageFairness == WF_vars((FetchPage \/ FetchPageFails) /\ UNCHANGED outsidePage)

SpecPageLive == PageStart /\ [][PageNext]_vars /\ PageFairness

(***************************************************************************)
(* Executor specification: one executeSync run                             *)
(***************************************************************************)
\* a fresh service; the upstream database lists the first n names, at most
\* one foreign key links two of these tables, and every target table is
\* empty or holds one row of an earlier copy
SyncInit ==
    /\ pc = "idle"
    /\ mode = "none"
    /\ clients = <<>>
    /\ localClient = 0
    /\ sessionToken = FALSE
    /\ logouts = 0
    /\ cleanups = 0
    /\ completed = {}
    /\ sent = {}
    /\ sampled = {}
    /\ analysis = NoAnalysis
    /\ syncConfig = DefaultConfig
    /\ syncStats = NoStats
    /\ tableNames \in {[i \in 1..n |-> i] : n \in 0..MaxTables}
    /\ fkRows \in {<<>>} \cup {<<e>> : e \in {x \in (1..MaxTables) \X (1..MaxTables) :
                                                x[1] # x[2]}}
    /\ upstream \in {u \in [Names -> UpstreamSamples] :
                        \A t \in Names \ Range(tableNames) : u[t] = <<>>}
    /\ preRun \in {[t \in Names |-> T] : T \in {{}, {[id |-> "1", name |-> "old"]}}}
    /\ db = preRun
    /\ tableCounts = [t \in Names |-> 0]
    /\ idx = 0
    /\ clearLog = <<>>
    /\ rollbackLog = <<>>
    /\ tableLog = [t \in Names |-> NotProcessed]
    /\ syncOrder = <<>>
    /\ result = [state |-> "running", error |-> "none"]
    /\ faults = 0
    /\ planPc = "off"
    /\ dependencies = [t \in Names |-> <<>>]
    /\ sorted = <<>>

\* a phase throws: executeSync's catch rethrows after handleSyncFailure,
\* performDryRun's catch returns { success: false, error }; the finally block
\* of either runs cleanup
Throw(e) ==
    /\ result' = [state |-> IF mode = "dryRun" THEN "resolved" ELSE "rejected",
                  error |-> e]
    /\ pc' = "cleanup"

\* connectLocal: a new Client takes the place of the one in localClient
ConnectLocal ==
    /\ clients' = Append(clients, "open")
    /\ localClient' = Len(clients) + 1

\* connectLocal gives up: the Client of its last attempt stays in localClient
ConnectLocalFails ==
    /\ clients' = Append(clients, "failed")
    /\ localClient' = Len(clients) + 1

\* steps that completed successfully
Complete(steps) == completed' = completed \cup steps

\* statements of these kinds went to the target
Send(kinds) == sent' = sent \cup kinds

\* the environment fails n more times
Spend(n) ==
    /\ faults + n <= MaxFaults
    /\ faults' = faults + n

\* configure(config), once, before the run
Configure ==
    /\ pc = "idle"
    /\ syncConfig = DefaultConfig
    /\ \E config \in ConfigSamples : syncConfig' = Merge(syncConfig, config)
    /\ UNCHANGED <<pc, syncStats, upstream, tableCounts, db, preRun, idx, clearLog,
                   rollbackLog, tableLog, syncOrder, result, faults, mode, runVars, planVars>>

\* executeSync is invoked
ExecuteSync ==
    /\ pc = "idle"
    /\ mode' = "sync"
    /\ pc' = "auth"
    /\ UNCHANGED <<syncConfig, syncStats, upstream, tableCounts, db, preRun, idx,
                   clearLog, rollbackLog, tableLog, syncOrder, result, faults, runVars, planVars>>

\* performDryRun is invoked: `this.syncStats.failedTables = []`
PerformDryRun ==
    /\ pc = "idle"
    /\ mode' = "dryRun"
    /\ syncStats' = [syncStats EXCEPT !.failedTables = <<>>]
    /\ pc' = "auth"
    /\ UNCHANGED <<syncConfig, upstream, tableCounts, db, preRun, idx, clearLog,
                   rollbackLog, tableLog, syncOrder, result, faults, runVars, planVars>>

\* phase 1: authenticate upstream, initialize, connectLocal
AuthenticateAndConnect ==
    /\ pc = "auth"
    /\ \/ /\ Spend(0)
          /\ sessionToken' = TRUE
          /\ ConnectLocal
          /\ Complete({"auth", "connect"})
          /\ pc' = "discover"
          /\ UNCHANGED result
       \/ /\ Spend(1)
          /\ Throw("auth-failed")
          /\ UNCHANGED <<sessionToken, clients, localClient, completed>>
       \/ /\ Spend(1)
          /\ sessionToken' = TRUE
          /\ ConnectLocalFails
          /\ Complete({"auth"})
          /\ Throw("connect-failed")
    /\ UNCHANGED <<syncConfig, syncStats, upstream, tableCounts, db, preRun, idx,
                   clearLog, rollbackLog, tableLog, syncOrder, mode, logouts, cleanups, sent,
                   sampled, analysis, planVars>>

\* a plausible slip: a failing foreign-key query is taken as no dependencies
DiscoverAndAnalyzeLenient ==
    /\ pc = "discover"
    /\ \/ /\ Spend(1)
          /\ Throw("discover-failed")
          /\ UNCHANGED <<syncStats, dependencies, clients, localClient, completed, sent>>
       \/ /\ syncStats' = [syncStats EXCEPT !.totalTables = Len(tableNames)]
          /\ \/ /\ Spend(1)
                /\ ConnectLocalFails
                /\ Complete({"tables"})
                /\ Throw("connect-failed")
                /\ UNCHANGED <<dependencies, sent>>
             \/ /\ Spend(1)
                /\ ConnectLocal
                /\ Complete({"tables"})
                /\ Send({"SELECT"})
                /\ pc' = IF mode = "dryRun" THEN "count" ELSE "clear"
                /\ UNCHANGED <<dependencies, result>>
             \/ /\ ConnectLocal
                /\ dependencies' = getTableDependencies(fkRows)
                /\ Send({"SELECT"})
                /\ \/ Spend(0) /\ Complete({"tables", "edges", "enums"})
                   \/ Spend(1) /\ Complete({"tables", "edges"})
                /\ pc' = IF mode = "dryRun" THEN "count" ELSE "clear"
                /\ UNCHANGED result
    /\ UNCHANGED <<syncConfig, upstream, tableCounts, db, preRun, idx, clearLog,
                   rollbackLog, tableLog, syncOrder, mode, sessionToken, logouts, cleanups,
                   sampled, analysis, planPc, tableNames, fkRows, sorted>>

\* phase 2: getTables, connectLocal, getTableDependencies, discoverEnumValues;
\* the enum query failing is logged and yields an empty catalog.  executeSync
\* goes on to clear the target, performDryRun to count the tables
DiscoverAndAnalyze ==
    /\ pc = "discover"
    /\ \/ /\ Spend(1)
          /\ Throw("discover-failed")
          /\ UNCHANGED <<syncStats, dependencies, clients, localClient, completed, sent>>
       \/ /\ syncStats' = [syncStats EXCEPT !.totalTables = Len(tableNames)]
          /\ \/ /\ Spend(1)
                /\ ConnectLocalFails
                /\ Complete({"tables"})
                /\ Throw("connect-failed")
                /\ UNCHANGED <<dependencies, sent>>
             \/ /\ Spend(1)
                /\ ConnectLocal
                /\ Complete({"tables"})
                /\ Send({"SELECT"})
                /\ Throw("discover-failed")
                /\ UNCHANGED dependencies
             \/ /\ ConnectLocal
                /\ dependencies' = getTableDependencies(fkRows)
                /\ Send({"SELECT"})
                /\ \/ Spend(0) /\ Complete({"tables", "edges", "enums"})
                   \/ Spend(1) /\ Complete({"tables", "edges"})
                /\ pc' = IF mode = "dryRun" THEN "count" ELSE "clear"
                /\ UNCHANGED result
    /\ UNCHANGED <<syncConfig, upstream, tableCounts, db, preRun, idx, clearLog,
                   rollbackLog, tableLog, syncOrder, mode, sessionToken, logouts, cleanups,
                   sampled, analysis, planPc, tableNames, fkRows, sorted>>

\* phase 3: connectLocal, then DELETE FROM each table in clearing order; a
\* delete that fails is logged and skipped
ClearExistingData ==
    /\ pc = "clear"
    /\ \/ /\ Spend(1)
          /\ ConnectLocalFails
          /\ Throw("connect-failed")
          /\ UNCHANGED <<db, clearLog, completed, sent>>
       \/ \E failed \in FaultSets :
             /\ Spend(Cardinality(failed))
             /\ ConnectLocal
             /\ clearLog' = ClearingOrder
             /\ db' = Deleted(db, Range(ClearingOrder) \ failed)
             /\ Send(IF Len(ClearingOrder) > 0 THEN {"DELETE"} ELSE {})
             /\ Complete({"clear"})
             /\ pc' = "count"
             /\ UNCHANGED result
    /\ UNCHANGED <<syncConfig, syncStats, upstream, tableCounts, preRun, idx,
                   rollbackLog, tableLog, syncOrder, mode, sessionToken, logouts, cleanups,
                   sampled, analysis, planVars>>

\* phase 4a: getTableRowCount per table; a failed count reads as 0
AnalyzeTableSizes ==
    /\ pc = "count"
    /\ \E failed \in FaultSets :
          /\ Spend(Cardinality(failed))
          /\ tableCounts' = [t \in Names |->
                                IF t \in Range(tableNames) \ failed
                                THEN Len(upstream[t]) ELSE 0]
          /\ syncStats' = [syncStats EXCEPT !.totalRows = SumCounts(tableCounts', Names)]
    /\ pc' = IF mode = "dryRun" THEN "analyze" ELSE "plan"
    /\ UNCHANGED <<syncConfig, upstream, db, preRun, idx, clearLog, rollbackLog,
                   tableLog, syncOrder, result, mode, runVars, planVars>>

\* phase 4b, before the loop: connectLocal and the insertion order
BeginDataSync ==
    /\ pc = "plan"
    /\ \/ Spend(1) /\ ConnectLocalFails /\ Throw("connect-failed") /\ UNCHANGED idx
       \/ Spend(0) /\ ConnectLocal /\ idx' = 1 /\ pc' = "sync" /\ UNCHANGED result
    /\ UNCHANGED <<syncConfig, syncStats, upstream, tableCounts, db, preRun, clearLog,
                   rollbackLog, tableLog, syncOrder, mode, sessionToken, logouts, cleanups,
                   completed, sent, sampled, analysis, planVars>>

\* what a turn of the sync loop leaves behind
RecordTable(t, r) ==
    /\ db' = [db EXCEPT ![t] = r.table]
    /\ tableLog' = [tableLog EXCEPT ![t] = [r EXCEPT !.table = {}]]
    /\ syncOrder' = Append(syncOrder, t)
    /\ Send(IF r.extracted > 0 THEN {"SELECT", "INSERT"} ELSE {})
    /\ syncStats' = IF r.threw
                    THEN [syncStats EXCEPT !.failedTables = Append(@, t)]
                    ELSE [syncStats EXCEPT !.successfulTables = @ + 1,
                                           !.syncedRows = @ + r.inserted]

\* the table of the current turn of the loop
Current == InsertionOrder[idx]

\* phase 4b, one turn of the loop: a table counted as empty is a success
\* without any work, any other is extracted, transformed and loaded; the
\* upstream request may fail, or the target connection be lost at a query
SyncTable ==
    /\ pc = "sync"
    /\ idx <= Len(InsertionOrder)
    /\ IF tableCounts[Current] = 0
       THEN Spend(0) /\ RecordTable(Current, TableOutcome(db[Current]))
       ELSE \/ /\ Spend(1)
               /\ RecordTable(Current,
                              syncSingleTable(db[Current], Current, upstream[Current],
                                              syncConfig, FALSE, 0))
            \/ \E from \in 0..MaxFaultAt :
                  /\ Spend(IF from > 0 THEN 1 ELSE 0)
                  /\ RecordTable(Current,
                                 syncSingleTable(db[Current], Current, upstream[Current],
                                                 syncConfig, TRUE, from))
    /\ idx' = idx + 1
    /\ UNCHANGED <<pc, syncConfig, upstream, tableCounts, preRun, clearLog,
                   rollbackLog, result, mode, clients, localClient, sessionToken,
                   logouts, cleanups, completed, sampled, analysis, planVars>>

\* after the loop with failed tables: handleSyncFailures, which rolls back
\* when enableRollback is set (connectLocal, then DELETE FROM each table in
\* clearing order, a failing delete being logged and skipped) and then throws
HandleSyncFailures ==
    /\ pc = "sync"
    /\ idx > Len(InsertionOrder)
    /\ Len(syncStats.failedTables) > 0
    /\ IF syncConfig.enableRollback
       THEN \/ /\ Spend(1)
               /\ ConnectLocalFails
               /\ Throw("connect-failed")
               /\ UNCHANGED <<db, rollbackLog, sent>>
            \/ \E failed \in FaultSets :
                  /\ Spend(Cardinality(failed))
                  /\ ConnectLocal
                  /\ rollbackLog' = ClearingOrder
                  /\ db' = Deleted(db, Range(ClearingOrder) \ failed)
                  /\ Send({"DELETE"})
                  /\ Throw("sync-failed")
       ELSE /\ Spend(0)
            /\ Throw("sync-failed")
            /\ UNCHANGED <<db, rollbackLog, clients, localClient, sent>>
    /\ UNCHANGED <<syncConfig, syncStats, upstream, tableCounts, preRun, idx, clearLog,
                   tableLog, syncOrder, mode, sessionToken, logouts, cleanups, completed, sampled,
                   analysis, planVars>>

\* phase 5: no failed table, the run returns success: true
FinalizeSynchronization ==
    /\ pc = "sync"
    /\ idx > Len(InsertionOrder)
    /\ Len(syncStats.failedTables) = 0
    /\ result' = [state |-> "resolved", error |-> "none"]
    /\ pc' = "cleanup"
    /\ UNCHANGED <<syncConfig, syncStats, upstream, tableCounts, db, preRun, idx,
                   clearLog, rollbackLog, tableLog, syncOrder, faults, mode, runVars, planVars>>

\* one turn of the loop of analyzePlannedChanges, acc being the analysis and
\* the tables sampled so far.  A table counted as empty is passed over.  For
\* any other, metabaseService.extractTableData is called: MetabaseService has
\* no such method, the TypeError is caught by the inner catch and only the
\* 'Analysis error' issue is left.  Were the method there, the sample page
\* would be fetched and given to transformTableData, which returns the rows
\* and no { success, issues }, so that reading transformResult.issues.map
\* raises into the same catch; getTableSchemaInfo is not reached either way
AnalyzeTable(acc, t) ==
    IF tableCounts[t] = 0 THEN acc
    ELSE [analysis |->
              [acc.analysis EXCEPT
                  !.tablesWithData = @ + 1,
                  !.totalRowsToSync = @ + tableCounts[t],
                  !.potentialIssues =
                      IF "extractTableData" \in MetabaseMethods
                            /\ Len(queryTable(upstream[t], SampleLimit, 0)) = 0
                      THEN @
                      ELSE Append(@, [table |-> t, issue |-> "Analysis error"])],
          sampled |-> IF "extractTableData" \in MetabaseMethods
                      THEN acc.sampled \cup {t} ELSE acc.sampled]

RECURSIVE AnalyzeTables(_, _)
AnalyzeTables(acc, i) ==
    IF i > Len(tableNames) THEN acc
    ELSE AnalyzeTables(AnalyzeTable(acc, tableNames[i]), i + 1)

\* a plausible slip: the sample page is loaded into the target
AnalyzePlannedChangesLoading ==
    /\ pc = "analyze"
    /\ \/ /\ Spend(1)
          /\ ConnectLocalFails
          /\ analysis' = [analysis EXCEPT !.success = FALSE]
          /\ Throw("connect-failed")
          /\ UNCHANGED <<sampled, db, sent>>
       \/ /\ Spend(0)
          /\ ConnectLocal
          /\ analysis' = AnalyzeTables([analysis |-> analysis, sampled |-> sampled],
                                       1).analysis
          /\ sampled' = {t \in Range(tableNames) : tableCounts[t] > 0}
          /\ db' = [t \in Names |->
                       IF t \in sampled'
                       THEN db[t] \cup Range(queryTable(upstream[t], SampleLimit, 0))
                       ELSE db[t]]
          /\ Send(IF sampled' # {} THEN {"INSERT"} ELSE {})
          /\ result' = [state |-> "resolved", error |-> "none"]
          /\ pc' = "cleanup"
    /\ UNCHANGED <<syncConfig, syncStats, upstream, tableCounts, preRun, idx, clearLog,
                   rollbackLog, tableLog, syncOrder, mode, sessionToken, logouts, cleanups,
                   completed, planVars>>

\* the last phase of performDryRun: connectLocal, then the loop over the
\* tables; a connection failure is caught and returned as { success: false }
AnalyzePlannedChanges ==
    /\ pc = "analyze"
    /\ \/ /\ Spend(1)
          /\ ConnectLocalFails
          /\ analysis' = [analysis EXCEPT !.success = FALSE]
          /\ Throw("connect-failed")
          /\ UNCHANGED sampled
       \/ /\ Spend(0)
          /\ ConnectLocal
          /\ analysis' = AnalyzeTables([analysis |-> analysis, sampled |-> sampled],
                                       1).analysis
          /\ sampled' = AnalyzeTables([analysis |-> analysis, sampled |-> sampled],
                                      1).sampled
          /\ result' = [state |-> "resolved", error |-> "none"]
          /\ pc' = "cleanup"
    /\ UNCHANGED <<syncConfig, syncStats, upstream, tableCounts, db, preRun, idx,
                   clearLog, rollbackLog, tableLog, syncOrder, mode, sessionToken, logouts,
                   cleanups, completed, sent, planVars>>

\* a plausible slip: what closeConnections raises leaves cleanup
CleanupRethrows ==
    /\ pc = "cleanup"
    /\ cleanups' = cleanups + 1
    /\ \/ /\ Spend(0)
          /\ clients' = IF localClient = 0 THEN clients
                        ELSE [clients EXCEPT ![localClient] = "ended"]
          /\ localClient' = 0
          /\ logouts' = logouts + 1
          /\ sessionToken' = FALSE
          /\ UNCHANGED result
       \/ /\ localClient # 0
          /\ Spend(1)
          /\ result' = [state |-> "rejected", error |-> "cleanup-failed"]
          /\ UNCHANGED <<clients, localClient, logouts, sessionToken>>
    /\ pc' = "done"
    /\ UNCHANGED <<syncConfig, syncStats, upstream, tableCounts, db, preRun, idx,
                   clearLog, rollbackLog, tableLog, syncOrder, mode, completed, sent, sampled,
                   analysis, planVars>>

\* finally: cleanup.  closeConnections ends the Client in localClient and
\* logout drops the session; when end() raises, closeConnections throws,
\* logout is passed over and the catch of cleanup logs the error.  The
\* promise then settles as the run left it
Cleanup ==
    /\ pc = "cleanup"
    /\ cleanups' = cleanups + 1
    /\ \/ /\ Spend(0)
          /\ clients' = IF localClient = 0 THEN clients
                        ELSE [clients EXCEPT ![localClient] = "ended"]
          /\ localClient' = 0
          /\ logouts' = logouts + 1
          /\ sessionToken' = FALSE
       \/ /\ localClient # 0
          /\ Spend(1)
          /\ UNCHANGED <<clients, localClient, logouts, sessionToken>>
    /\ pc' = "done"
    /\ UNCHANGED <<syncConfig, syncStats, upstream, tableCounts, db, preRun, idx,
                   clearLog, rollbackLog, tableLog, syncOrder, result, mode, completed, sent,
                   sampled, analysis, planVars>>

\* the upstream database is live: between the count and the extraction of a
\* table its last row is deleted
UpstreamChange ==
    /\ pc \in {"plan", "sync"}
    /\ Spend(1)
    /\ \E t \in Range(tableNames) :
          /\ ~tableLog[t].done
          /\ Len(upstream[t]) > 0
          /\ upstream' = [upstream EXCEPT ![t] = SubSeq(@, 1, Len(@) - 1)]
    /\ UNCHANGED <<pc, syncConfig, syncStats, tableCounts, db, preRun, idx, clearLog,
                   rollbackLog, tableLog, syncOrder, result, mode, runVars, planVars>>

SyncNext ==
    \/ Configure /\ UNCHANGED outsideSync
    \/ ExecuteSync /\ UNCHANGED outsideSync
    \/ PerformDryRun /\ UNCHANGED outsideSync
    \/ AuthenticateAndConnect /\ UNCHANGED outsideSync
    \/ DiscoverAndAnalyze /\ UNCHANGED outsideSync
    \/ ClearExistingData /\ UNCHANGED outsideSync
    \/ AnalyzeTableSizes /\ UNCHANGED outsideSync
    \/ BeginDataSync /\ UNCHANGED outsideSync
    \/ SyncTable /\ UNCHANGED outsideSync
    \/ HandleSyncFailures /\ UNCHANGED outsideSync
    \/ FinalizeSynchronization /\ UNCHANGED outsideSync
    \/ AnalyzePlannedChanges /\ UNCHANGED outsideSync
    \/ Cleanup /\ UNCHANGED outsideSync
    \/ UpstreamChange /\ UNCHANGED outsideSync

SyncStart == SyncInit /\ LoadOff /\ ConnOff /\ CliOff /\ ServicesOff

ConnStart == ConnInit /\ PlanOff /\ LoadOff /\ SyncOff /\ CliOff /\ ServicesOff

SpecConnect == ConnStart /\ [][ConnNext]_vars

SpecSync == SyncStart /\ [][SyncNext]_vars

(***************************************************************************)
(* Command line specification: one start of sync-all.js                    *)
(***************************************************************************)
\* arguments a user may give: the flags of parseArguments, the flag the
\* README documents for continuing on errors, and one no version knows
Flags == {"--dry-run", "-d", "--help", "-h", "--ignore-errors", "-i", "--verbose"}

\* `const options = { dryRun: false, showHelp: false }`
NoOptions == [dryRun |-> FALSE, showHelp |-> FALSE]

\* a plausible slip: an argument the switch does not know is passed over
ParseArgumentSkippingUnknown(opts, arg) ==
    CASE arg \in {"--dry-run", "-d"} -> [opts EXCEPT !.dryRun = TRUE]
      [] arg \in {"--help", "-h"} -> [opts EXCEPT !.showHelp = TRUE]
      [] OTHER -> opts

\* the switch of parseArguments; its default case warns and asks for help
ParseArgument(opts, arg) ==
    CASE arg \in {"--dry-run", "-d"} -> [opts EXCEPT !.dryRun = TRUE]
      [] arg \in {"--help", "-h"} -> [opts EXCEPT !.showHelp = TRUE]
      [] OTHER -> [opts EXCEPT !.showHelp = TRUE]

RECURSIVE ParseFrom(_, _, _)
ParseFrom(opts, args, i) ==
    IF i > Len(args) THEN opts
    ELSE ParseFrom(ParseArgument(opts, args[i]), args, i + 1)

parseArguments(args) == ParseFrom(NoOptions, args, 1)

\* the process before main runs: the module singletons exist, the target
\* and upstream hold their data; foreign keys play no part here
CliInit ==
    /\ cliPc = "start"
    /\ argv \in SeqsUpTo(Flags, MaxArgs)
    /\ credentials \in BOOLEAN
    /\ cliOptions = NoOptions
    /\ usage = FALSE
    /\ exitCode = -1
    /\ interrupted = FALSE
    /\ SyncInit
    /\ fkRows = <<>>

\* main up to its first await: parse, then usage and exit(0), or exit(1) on
\* missing credentials through the catch, or the call of performDryRun or
\* executeSync
Main ==
    /\ cliPc = "start"
    /\ cliOptions' = parseArguments(argv)
    /\ IF parseArguments(argv).showHelp
       THEN /\ usage' = TRUE
            /\ exitCode' = 0
            /\ cliPc' = "exited"
            /\ UNCHANGED <<syncVars, planVars>>
       ELSE IF ~credentials
       THEN /\ exitCode' = 1
            /\ cliPc' = "exited"
            /\ UNCHANGED <<usage, syncVars, planVars>>
       ELSE /\ cliPc' = "running"
            /\ IF parseArguments(argv).dryRun THEN PerformDryRun ELSE ExecuteSync
            /\ UNCHANGED <<usage, exitCode>>
    /\ UNCHANGED <<argv, credentials, interrupted>>

\* main after the await: exit(1) when performDryRun returned success: false
\* or executeSync threw, exit(0) otherwise
Exit ==
    /\ cliPc = "running"
    /\ pc = "done"
    /\ exitCode' = ExitCode
    /\ cliPc' = "exited"
    /\ UNCHANGED <<argv, credentials, cliOptions, usage, interrupted, syncVars,
                   planVars>>

\* SIGINT while the run is awaited: the only handler of the process is the
\* one the logger module installs, which stops spinners and progress bars
\* and calls process.exit(0); the pending run is dropped where it stands
Interrupt ==
    /\ cliPc = "running"
    /\ pc # "done"
    /\ interrupted' = TRUE
    /\ exitCode' = 0
    /\ cliPc' = "exited"
    /\ UNCHANGED <<argv, credentials, cliOptions, usage, syncVars, planVars>>

\* a step of the run main awaits; an exited process takes none
Awaited(step) == cliPc = "running" /\ step /\ UNCHANGED outsideSync

CliNext ==
    \/ Main /\ UNCHANGED outsideCli
    \/ Awaited(AuthenticateAndConnect)
    \/ Awaited(DiscoverAndAnalyze)
    \/ Awaited(ClearExistingData)
    \/ Awaited(AnalyzeTableSizes)
    \/ Awaited(BeginDataSync)
    \/ Awaited(SyncTable)
    \/ Awaited(HandleSyncFailures)
    \/ Awaited(FinalizeSynchronization)
    \/ Awaited(AnalyzePlannedChanges)
    \/ Awaited(Cleanup)
    \/ Awaited(UpstreamChange)
    \/ Interrupt /\ UNCHANGED outsideCli
    \/ Exit /\ UNCHANGED outsideCli

CliStart == CliInit /\ LoadOff /\ ConnOff /\ ServicesOff

SpecCli == CliStart /\ [][CliNext]_vars

(***************************************************************************)
(* C1  In the insertion order, every referenced table of the set comes     *)
(* strictly before each table of the set that depends on it, for every     *)
(* such pair that is not on a dependency cycle.                            *)
(***************************************************************************)
\* d depends directly on r, both in the table set
DependsOn(d, r) ==
    /\ d \in Range(tableNames)
    /\ r \in Range(tableNames)
    /\ r \in Range(dependencies[d])

\* tables of the set reachable from `from` along dependency edges (1+ steps)
RECURSIVE ReachFrom(_, _)
ReachFrom(frontier, seen) ==
    LET next == {r \in Range(tableNames) : \E d \in frontier : DependsOn(d, r)}
    IN IF next \subseteq seen THEN seen ELSE ReachFrom(next \ seen, seen \cup next)

Reaches(a, b) == b \in ReachFrom({a}, {})

\* the edge d -> r lies on a cycle iff d is reachable back from r
OnCycle(d, r) == Reaches(r, d)

C1_ReferencedBeforeDependent ==
    planPc = "sorted" =>
        \A d, r \in Range(tableNames) :
            (DependsOn(d, r) /\ ~OnCycle(d, r)) =>
                /\ IndexOf(sorted, r) > 0
                /\ IndexOf(sorted, d) > 0
                /\ IndexOf(sorted, r) < IndexOf(sorted, d)

\* a chain 1 -> 2 -> 3 listed against the discovery order has been sorted, next
\* to a reference that is skipped because it lies on a cycle
C1_Witness ==
    /\ planPc = "sorted"
    /\ Len(tableNames) = NumNames
    /\ \E d, r \in Range(tableNames) : DependsOn(d, r) /\ ~OnCycle(d, r) /\ d < r
    /\ \E d, r \in Range(tableNames) : d # r /\ DependsOn(d, r) /\ OnCycle(d, r)

(***************************************************************************)
(* Executor claims                                                         *)
(***************************************************************************)
\* an executeSync invocation has settled
SyncDone == pc = "done" /\ mode = "sync"

Planned == Range(tableNames)

SomeTableFailed == Len(syncStats.failedTables) > 0

\* the sync loop has been through every planned table
LoopFinished == idx = Len(InsertionOrder) + 1

\* the loader reported at least one inserted row
InsertedAny == \E t \in Planned : tableLog[t].inserted > 0

ContinueOnError ==
    /\ "continueOnError" \in DOMAIN syncConfig
    /\ syncConfig.continueOnError
    /\ ~syncConfig.enableRollback

(***************************************************************************)
(* C2  With enableRollback, a run in which a table failed ends only after  *)
(* the loop went through every planned table and a delete was issued for   *)
(* every planned table in deletion order, and it ends rejected with the    *)
(* sync-failed error, never resolved.                                      *)
(***************************************************************************)
C2_RollbackThenSyncFailed ==
    (SyncDone /\ syncConfig.enableRollback /\ SomeTableFailed) =>
        /\ LoopFinished
        /\ rollbackLog = ClearingOrder
        /\ result = [state |-> "rejected", error |-> "sync-failed"]

(***************************************************************************)
(* C3  With continueOnError (and enableRollback off), a run in which a     *)
(* table failed still resolves: the loop went through every planned table, *)
(* no rollback delete was issued, and the exit code is 0.                  *)
(***************************************************************************)
C3_ContinueOnErrorResolves ==
    (SyncDone /\ ContinueOnError /\ SomeTableFailed) =>
        /\ LoopFinished
        /\ rollbackLog = <<>>
        /\ result.state = "resolved"
        /\ ExitCode = 0

(***************************************************************************)
(* C4  All-or-nothing: when a run with enableRollback fails in the sync    *)
(* phase and its rollback has been carried out, every planned table of the *)
(* target holds the rows it held before the run.                           *)
(***************************************************************************)
C4_FailedRunRestoresTarget ==
    (/\ SyncDone
     /\ syncConfig.enableRollback
     /\ result = [state |-> "rejected", error |-> "sync-failed"]
     /\ rollbackLog = ClearingOrder) =>
        \A t \in Planned : db[t] = preRun[t]

(***************************************************************************)
(* C5  With enableRollback, a run that inserted at least one row ends in   *)
(* one of two ways only: resolved with every planned table committed, or   *)
(* rejected after a delete was issued for every planned table in deletion  *)
(* order.                                                                  *)
(***************************************************************************)
C5_CommitOrRollback ==
    (SyncDone /\ syncConfig.enableRollback /\ InsertedAny) =>
        \/ /\ result.state = "resolved"
           /\ \A t \in Planned : tableLog[t].done /\ ~tableLog[t].threw
        \/ /\ result.state = "rejected"
           /\ rollbackLog = ClearingOrder

(***************************************************************************)
(* C6 (as stated)  Under conflict policy error, a table is counted as      *)
(* successful only if the number of rows inserted equals the table's       *)
(* upstream row count taken when the run was planned.                      *)
(***************************************************************************)
C6_SuccessMeansPlannedRows ==
    \A t \in Planned :
        (syncConfig.onConflict = "error" /\ tableLog[t].done /\ ~tableLog[t].threw)
            => tableLog[t].inserted = tableCounts[t]

(***************************************************************************)
(* C6 (amended)  Under conflict policy error, a table is counted as        *)
(* successful only if the number of rows inserted equals the number of     *)
(* rows extracted for it; any difference puts it in the failed tables.     *)
(***************************************************************************)
C6_SuccessMeansExtractedRows ==
    \A t \in Planned :
        (syncConfig.onConflict = "error" /\ tableLog[t].done) =>
            /\ ~tableLog[t].threw => tableLog[t].inserted = tableLog[t].extracted
            /\ tableLog[t].inserted # tableLog[t].extracted
                  => t \in Range(syncStats.failedTables)

\* under policy error one table went in whole and another failed the count check
C6_Witness ==
    /\ SyncDone
    /\ syncConfig.onConflict = "error"
    /\ \E t \in Planned :
          /\ ~tableLog[t].threw
          /\ tableLog[t].inserted > 0
          /\ tableLog[t].inserted = tableLog[t].extracted
    /\ \E t \in Planned :
          /\ tableLog[t].why = "row-count-mismatch"
          /\ t \in Range(syncStats.failedTables)

(***************************************************************************)
(* C7  Under conflict policy skip, a table whose load succeeded is counted *)
(* as successful even when the number of inserted rows differs from the    *)
(* number of planned rows.                                                 *)
(***************************************************************************)
C7_SkipMismatchIsSuccess ==
    \A t \in Planned :
        (/\ syncConfig.onConflict = "skip"
         /\ tableLog[t].done
         /\ tableLog[t].loaded
         /\ tableLog[t].inserted # tableCounts[t])
            => ~tableLog[t].threw

(***************************************************************************)
(* Loader claims                                                           *)
(***************************************************************************)
LoadDone == loadPc \in {"returned", "thrown"}

\* the batches of the call whose batch statement failed and fell back
FallenBack == {k \in DOMAIN loadOut.log : loadOut.log[k].fellBack}

Accounted(k) ==
    loadOut.log[k].insertedRows + Len(loadOut.log[k].rowErrors) = loadOut.log[k].size

(***************************************************************************)
(* C8 (as stated)  Whenever a batch insert fails and the per-row fallback  *)
(* completes, insertedRows + number of rowErrors = rows of the batch, for  *)
(* every conflict policy.                                                  *)
(***************************************************************************)
C8_FallbackAccountsEveryRow ==
    LoadDone => \A k \in FallenBack : Accounted(k)

(***************************************************************************)
(* C8 (amended)  After a completed per-row fallback, insertedRows + number *)
(* of rowErrors = rows of the batch under the policies error and update;   *)
(* under skip the sum never exceeds the rows of the batch.                 *)
(***************************************************************************)
C8_FallbackAccountsUnlessSkipped ==
    LoadDone =>
        \A k \in FallenBack :
            /\ options.onConflict \in {"error", "update"} => Accounted(k)
            /\ loadOut.log[k].insertedRows + Len(loadOut.log[k].rowErrors)
                   <= loadOut.log[k].size

\* a fallback under policy error that inserted one row and rejected another
C8_Witness ==
    /\ loadPc = "returned"
    /\ options.onConflict = "error"
    /\ \E k \in FallenBack :
          /\ loadOut.log[k].insertedRows > 0
          /\ Len(loadOut.log[k].rowErrors) > 0

(***************************************************************************)
(* C9  insertTableData never throws because individual rows fail to        *)
(* insert; every failed row is reported in the errors of the result, and   *)
(* success is false when any row failed.  Stated for calls in which the    *)
(* connection never faults, so that every failure is a row's own.          *)
(***************************************************************************)
SomeRowFailed == \E k \in DOMAIN loadOut.log : Len(loadOut.log[k].rowErrors) > 0

C9_RowFailuresReported ==
    (LoadDone /\ SomeRowFailed /\ faultFrom = 0) =>
        /\ loadPc = "thrown" => \E k \in DOMAIN loadOut.log : loadOut.log[k].emptyCols
        /\ loadPc = "returned" => (~loadOut.success /\ Len(loadOut.errors) > 0)

(***************************************************************************)
(* C10  insertTableData (of an initialized service) throws instead of      *)
(* returning exactly when the target connection faulted while loading or   *)
(* a batch had an empty effective column set.                              *)
(***************************************************************************)
C10_ThrowsExactly ==
    (LoadDone /\ isInitialized) =>
        (loadPc = "thrown" <=>
            (loadOut.fault \/ \E k \in DOMAIN loadOut.log : loadOut.log[k].emptyCols))

\* the k-th batch of the call: data.slice(i, i + batchSize)
BatchOf(k) ==
    SubSeq(data, (k - 1) * options.batchSize + 1,
           IF k * options.batchSize < Len(data) THEN k * options.batchSize ELSE Len(data))

KeysOf(batch) == UNION {DOMAIN batch[i] : i \in DOMAIN batch}

InTargetOrder(cols) ==
    \A i, j \in DOMAIN cols :
        i < j => IndexOf(TargetColumns, cols[i]) < IndexOf(TargetColumns, cols[j])

(***************************************************************************)
(* C11  For every batch, the columns of the insert statement are exactly   *)
(* the target's columns that are a key of at least one row of the batch,   *)
(* in the target's order; keys that are no target column are dropped       *)
(* without error, and a key a row lacks is sent as null.                   *)
(***************************************************************************)
C11_EffectiveColumns ==
    LoadDone =>
        \A k \in DOMAIN loadOut.log :
            /\ loadOut.log[k].emptyCols
                  <=> Range(TargetColumns) \cap KeysOf(BatchOf(k)) = {}
            /\ ~loadOut.log[k].emptyCols =>
                  /\ ~loadOut.log[k].threw
                  /\ Range(loadOut.log[k].cols)
                        = Range(TargetColumns) \cap KeysOf(BatchOf(k))
                  /\ Len(loadOut.log[k].cols) = Cardinality(Range(loadOut.log[k].cols))
                  /\ InTargetOrder(loadOut.log[k].cols)
                  /\ \A i \in DOMAIN BatchOf(k), j \in DOMAIN loadOut.log[k].cols :
                        loadOut.log[k].values[i][j] =
                            IF loadOut.log[k].cols[j] \in DOMAIN BatchOf(k)[i]
                            THEN BatchOf(k)[i][loadOut.log[k].cols[j]]
                            ELSE Null

\* a batch of two rows: one brings a key the target lacks and no name, the
\* other brings the name; the statement names both target columns and sends
\* a null for the missing name
C11_Witness ==
    /\ loadPc = "returned"
    /\ \E k \in DOMAIN loadOut.log :
          /\ loadOut.log[k].cols = TargetColumns
          /\ "extra" \in KeysOf(BatchOf(k))
          /\ \E i \in DOMAIN BatchOf(k) :
                /\ "name" \notin DOMAIN BatchOf(k)[i]
                /\ loadOut.log[k].values[i][2] = Null

(***************************************************************************)
(* Connection claims                                                       *)
(***************************************************************************)
\* the invocation started with a zero counter under the constructor's retryConfig
FreshInvocation ==
    /\ connPc # "off"
    /\ startAttempts = 0
    /\ retryConfig = DefaultRetryConfig

(***************************************************************************)
(* C12  A connectLocal invocation that starts with a zero attempt counter  *)
(* runs the connect step at most 3 times, sleeps 1000 ms after the first   *)
(* failure and 2000 ms after the second and not after the third, returns   *)
(* on the first success, and throws right after the third failure.         *)
(***************************************************************************)
C12_RetrySchedule ==
    FreshInvocation =>
        /\ tries <= 3
        /\ sleeps = SubSeq(<<1000, 2000>>, 1, IF failures < 2 THEN failures ELSE 2)
        /\ connPc = "returned" => tries = failures + 1
        /\ connPc # "returned" => tries = failures
        /\ connPc = "thrown" <=> failures = 3

\* three failures in a row: two sleeps, then the throw
C12_Witness ==
    /\ FreshInvocation
    /\ connPc = "thrown"
    /\ tries = 3
    /\ sleeps = <<1000, 2000>>

(***************************************************************************)
(* Run claims: executeSync and performDryRun from invocation to cleanup    *)
(***************************************************************************)
\* the invocation has returned or thrown
RunDone == pc = "done"

\* end() of the Client in localClient raised inside cleanup
CleanupFailed == RunDone /\ localClient # 0

(***************************************************************************)
(* C13  An invocation of executeSync or performDryRun returns or throws    *)
(* only by a step of cleanup, that step is the first and only call of      *)
(* cleanup in the invocation, and it leaves the outcome of the run as it   *)
(* found it, also when closing the connection raised an error.             *)
(***************************************************************************)
C13_CleanupOnceOutcomeKept ==
    [][/\ pc' = "done" =>
             /\ pc = "cleanup"
             /\ cleanups = 0
             /\ cleanups' = 1
             /\ result' = result
       /\ pc' # "done" => cleanups' = 0]_vars

\* a dry run that succeeded and a sync that failed, each with a cleanup in
\* which closing the connection raised
C13_Witness ==
    /\ CleanupFailed
    /\ cleanups = 1
    /\ \/ mode = "dryRun" /\ result = [state |-> "resolved", error |-> "none"]
       \/ mode = "sync" /\ result = [state |-> "rejected", error |-> "sync-failed"]

\* Clients that connected and were never ended
OpenClients == {i \in DOMAIN clients : clients[i] = "open"}

(***************************************************************************)
(* C14  Once cleanup has run, no Client that connected during the run is   *)
(* still open and logout has been called, also when closing the            *)
(* connection raised an error.                                             *)
(***************************************************************************)
C14_AllClosedAndLoggedOut == RunDone => (OpenClients = {} /\ logouts > 0)

\* a DELETE or an INSERT went to the target
Wrote == sent \cap {"DELETE", "INSERT"} # {}

\* the run ended in authenticateAndConnect or discoverAndAnalyze
EndedBeforeClear == RunDone /\ "edges" \notin completed

(***************************************************************************)
(* C15  A DELETE or INSERT goes to the target only after authentication,   *)
(* the target connection, the table list, the foreign-key edges and the    *)
(* enum catalog have all completed successfully, an INSERT only after the  *)
(* Clear phase has finished, and a run that ended in Auth, Connect or      *)
(* Discover leaves every target table as it was.                           *)
(***************************************************************************)
C15_WritesAfterFullDiscovery ==
    /\ Wrote => {"auth", "connect", "tables", "edges", "enums"} \subseteq completed
    /\ "INSERT" \in sent => "clear" \in completed
    /\ EndedBeforeClear => (~Wrote /\ db = preRun)

(***************************************************************************)
(* C15, amended  As C15 without the enum catalog: the query for it may     *)
(* have failed, which is logged and leaves the catalog empty.              *)
(***************************************************************************)
C15_WritesAfterTablesAndEdges ==
    /\ Wrote => {"auth", "connect", "tables", "edges"} \subseteq completed
    /\ "INSERT" \in sent => "clear" \in completed
    /\ EndedBeforeClear => (~Wrote /\ db = preRun)

\* a run that deleted and inserted although the enum query had failed
C15_Witness ==
    /\ RunDone
    /\ {"DELETE", "INSERT"} \subseteq sent
    /\ "enums" \notin completed
    /\ db # preRun

\* performDryRun was invoked
DryRun == mode = "dryRun"

(***************************************************************************)
(* C16  At no point of a dry run has a DELETE or an INSERT gone to the     *)
(* target, and every target table holds the rows it held before            *)
(* performDryRun was called, whatever the upstream data and whichever      *)
(* requests, connections or statements failed.                             *)
(***************************************************************************)
C16_DryRunLeavesTarget ==
    DryRun => /\ ~Wrote
              /\ clearLog = <<>>
              /\ rollbackLog = <<>>
              /\ db = preRun

\* a dry run that went through its analysis of a table with rows, over a
\* populated target, and met a failure on the way
C16_Witness ==
    /\ DryRun
    /\ RunDone
    /\ analysis.tablesWithData > 0
    /\ faults > 0
    /\ \E t \in Names : preRun[t] # {}

\* the tables analyzeTableSizes counted rows for
TablesWithData == {t \in Range(tableNames) : tableCounts[t] > 0}

(***************************************************************************)
(* C17  A dry run that went through its analysis has fetched a sample      *)
(* page of at most ten rows for every table with a nonzero row count and   *)
(* for no other table, and its schemaChanges is the number of those        *)
(* tables that have an enum column.                                        *)
(***************************************************************************)
C17_SamplesEveryTableWithData ==
    (DryRun /\ RunDone /\ result.error = "none") =>
        /\ sampled = TablesWithData
        /\ analysis.schemaChanges =
               Cardinality({t \in TablesWithData : Len(EnumColumns) > 0})

(***************************************************************************)
(* Command line claims                                                     *)
(***************************************************************************)
Exited == cliPc = "exited"

\* the flags the tool is documented to accept
DocumentedFlags == {"--dry-run", "-d", "--ignore-errors", "-i", "--help", "-h"}

\* the command line holds a help flag or a flag that is not documented
HelpRequested ==
    \E i \in DOMAIN argv : argv[i] \in {"--help", "-h"} \/ argv[i] \notin DocumentedFlags

\* neither service method was invoked and nothing reached upstream or target
NothingDone ==
    /\ pc = "idle"
    /\ ~sessionToken
    /\ clients = <<>>
    /\ sent = {}
    /\ db = preRun

(***************************************************************************)
(* C18  With a help flag or an undocumented flag anywhere on the command   *)
(* line, whatever the other arguments, the tool never authenticates,       *)
(* connects, deletes or inserts, and it exits having printed the usage     *)
(* with code 0.                                                            *)
(***************************************************************************)
C18_HelpOnlyPrintsUsage ==
    HelpRequested => /\ NothingDone
                     /\ Exited => (usage /\ exitCode = 0)

\* credentials are set and a dry-run flag comes first, the help or unknown
\* flag second
C18_Witness ==
    /\ Exited
    /\ credentials
    /\ Len(argv) = 2
    /\ argv[1] \in {"--dry-run", "-d"}
    /\ argv[2] \in {"-h", "--verbose"}
    /\ usage

\* the command line holds --ignore-errors or -i and nothing else
OnlyIgnoreErrors ==
    /\ Len(argv) > 0
    /\ \A i \in DOMAIN argv : argv[i] \in {"--ignore-errors", "-i"}

(***************************************************************************)
(* C19  Started with --ignore-errors or -i and with credentials set, the   *)
(* tool has, when it exits, configured continueOnError true and            *)
(* enableRollback false and run executeSync to its end.                    *)
(***************************************************************************)
C19_IgnoreErrorsConfiguresAndSyncs ==
    (Exited /\ credentials /\ OnlyIgnoreErrors) =>
        /\ ContinueOnError
        /\ mode = "sync"
        /\ pc = "done"

\* the run reported success: executeSync resolved, or performDryRun
\* returned success: true
RunSucceeded == pc = "done" /\ result = [state |-> "resolved", error |-> "none"]

(***************************************************************************)
(* C20  When the tool exits without having printed the usage, the code is  *)
(* 1 if the credentials were missing, authentication failed, discovery     *)
(* failed or, in an executeSync run, a table failed; and whenever the code *)
(* is 0, the usage was printed or the run reported success.                *)
(***************************************************************************)
C20_ExitCodes ==
    Exited =>
        /\ (/\ ~usage
            /\ \/ ~credentials
               \/ result.error \in {"auth-failed", "discover-failed"}
               \/ mode = "sync" /\ SomeTableFailed) => exitCode = 1
        /\ exitCode = 0 => (usage \/ RunSucceeded)
        /\ exitCode \in {0, 1}

(***************************************************************************)
(* C21  A process interrupted during a run has run cleanup and exits with  *)
(* a code other than 0.                                                    *)
(***************************************************************************)
C21_InterruptCleansUpAndFails ==
    (Exited /\ interrupted) => (cleanups > 0 /\ exitCode > 0)

(***************************************************************************)
(* C22  Once the sync loop has been through every table, the deletes of    *)
(* the Clear phase were issued in exactly the reverse of the order in      *)
(* which the loop took the tables, and so were the deletes of the          *)
(* rollback if there was one.                                              *)
(***************************************************************************)
C22_DeletesReverseInsertion ==
    (mode = "sync" /\ LoopFinished /\ pc \in {"sync", "cleanup", "done"}) =>
        /\ clearLog = Reverse(syncOrder)
        /\ rollbackLog \in {<<>>, Reverse(syncOrder)}

\* two tables linked by a foreign key, cleared, synchronized and rolled back
C22_Witness ==
    /\ SyncDone
    /\ Len(syncOrder) = MaxTables
    /\ fkRows # <<>>
    /\ rollbackLog = Reverse(syncOrder)
    /\ clearLog = rollbackLog

(***************************************************************************)
(* Planner claims                                                          *)
(***************************************************************************)
\* number of places of s that hold x
Occurrences(s, x) == Cardinality({i \in DOMAIN s : s[i] = x})

(***************************************************************************)
(* C23  The order sortTablesByDependencies returns holds every table name  *)
(* of its input exactly once and no other name, whatever the dependency    *)
(* map: cycles, self-references and references to tables outside the set   *)
(* included.                                                               *)
(***************************************************************************)
C23_SortIsPermutation ==
    planPc = "sorted" =>
        /\ \A t \in Range(tableNames) : Occurrences(sorted, t) = 1
        /\ Range(sorted) \subseteq Range(tableNames)

\* a sorted set whose foreign keys hold a self-reference, a reference to a
\* table outside the set and a reference inside it
C23_Witness ==
    /\ planPc = "sorted"
    /\ Len(tableNames) > 1
    /\ \E i \in DOMAIN fkRows : fkRows[i][1] = fkRows[i][2]
    /\ \E i \in DOMAIN fkRows :
          fkRows[i][1] \in Range(tableNames) /\ fkRows[i][2] \notin Range(tableNames)
    /\ \E i \in DOMAIN fkRows :
          /\ fkRows[i][1] # fkRows[i][2]
          /\ {fkRows[i][1], fkRows[i][2]} \subseteq Range(tableNames)

\* the discovery order of the fixture
FixtureOrder == tableNames = <<Users, Orders, Products, OrderItems>>

(***************************************************************************)
(* C24  With discovery order users, orders, products, order_items and the  *)
(* foreign keys orders->users, order_items->orders, order_items->products, *)
(* the insertion order is users, products, orders, order_items and the     *)
(* deletion order is its reverse.                                          *)
(***************************************************************************)
C24_FixtureOrder ==
    (planPc = "sorted" /\ FixtureOrder) =>
        /\ sorted = <<Users, Products, Orders, OrderItems>>
        /\ ClearingOrder = <<OrderItems, Orders, Products, Users>>

(***************************************************************************)
(* C24, amended  With that discovery order and those foreign keys the      *)
(* insertion order is the discovery order, users, orders, products,        *)
(* order_items, and the deletion order is its reverse.                     *)
(***************************************************************************)
C24_FixtureKeepsDiscoveryOrder ==
    (planPc = "sorted" /\ FixtureOrder) =>
        /\ sorted = <<Users, Orders, Products, OrderItems>>
        /\ ClearingOrder = <<OrderItems, Products, Orders, Users>>

\* the fixture sorted, the row for products coming first in the query result
C24_Witness ==
    /\ planPc = "sorted"
    /\ FixtureOrder
    /\ fkRows[1] = <<OrderItems, Products>>
    /\ Len(sorted) = 4

\* a and b are different tables on one dependency cycle
SameCycle(a, b) == a # b /\ Reaches(a, b) /\ Reaches(b, a)

\* a comes before b in the discovery order
DiscoveredBefore(a, b) == IndexOf(tableNames, a) < IndexOf(tableNames, b)

(***************************************************************************)
(* C33 (as stated)  When tables form a dependency cycle, every member of   *)
(* the cycle is in the output, and the members of a cycle stand in the     *)
(* output in their discovery order.                                        *)
(***************************************************************************)
C33_CycleInDiscoveryOrder ==
    planPc = "sorted" =>
        \A a, b \in Range(tableNames) :
            (SameCycle(a, b) /\ DiscoveredBefore(a, b)) =>
                /\ IndexOf(sorted, a) > 0
                /\ IndexOf(sorted, a) < IndexOf(sorted, b)

\* no table discovered before a depends on a, directly or through other tables
NotReachedEarlier(a) ==
    \A t \in Range(tableNames) : DiscoveredBefore(t, a) => ~Reaches(t, a)

(***************************************************************************)
(* C33 (amended)  When tables form a dependency cycle, every member of the *)
(* cycle is in the output, and a member of the cycle on which no table     *)
(* discovered before it depends, directly or through other tables, stands  *)
(* in the output after all other members of the cycle.                     *)
(***************************************************************************)
C33_CycleEntryLast ==
    planPc = "sorted" =>
        \A a, b \in Range(tableNames) :
            SameCycle(a, b) =>
                /\ IndexOf(sorted, a) > 0
                /\ IndexOf(sorted, b) > 0
                /\ NotReachedEarlier(a) => IndexOf(sorted, b) < IndexOf(sorted, a)

\* a cycle through all three tables has been sorted
C33_Witness ==
    /\ planPc = "sorted"
    /\ Len(tableNames) = NumNames
    /\ \A a, b \in Range(tableNames) : a # b => SameCycle(a, b)
    /\ sorted[Len(sorted)] = tableNames[1]

(***************************************************************************)
(* Claims about the extraction of one table (SpecPage, SpecPageLive)       *)
(***************************************************************************)
\* ceil(a / b) for b > 0
Ceil(a, b) == (a + b - 1) \div b

PageRequests == Requests(pageLog)

LastRequest == PageRequests[Len(PageRequests)]

\* as long as the loop goes on, the last page was full and fewer rows than
\* counted have been extracted; the requests stay within ceil(count / size)
PagingBounded ==
    /\ Len(PageRequests) <= Ceil(pageTotalRows, pageBatchSize)
    /\ (pagePc = "paging" /\ PageRequests # <<>>) =>
           /\ LastRequest.rows = pageBatchSize
           /\ pageExtractedRows < pageTotalRows

\* C25: for every positive page size the page loop of a table terminates: it
\* stops as soon as a page has fewer rows than the limit or the rows extracted
\* reach the counted rows, after at most ceil(count / page size) requests
C25_PagingTerminates == [](PagingBounded) /\ ((pagePc = "paging") ~> (pagePc # "paging"))

\* an extraction that took several pages and as many requests as the bound allows
C25_Witness ==
    /\ pagePc = "extracted"
    /\ Len(PageRequests) > 1
    /\ Len(PageRequests) = Ceil(pageTotalRows, pageBatchSize)

\* positions of the log at which page n was requested, and was handed over
RequestedAt(n) == {i \in DOMAIN pageLog : pageLog[i] = Requested(n, pageLog[i].rows)}

HandedAt(n) == {i \in DOMAIN pageLog : pageLog[i] = Handed(n, pageLog[i].rows)}

\* C26 as stated: within one table, page N+1 is not requested before the rows
\* of page N have been transformed and handed to the loader
C26_NextPageAfterHandOver ==
    \A n \in 1..MaxUpstream : \A i \in RequestedAt(n + 1) : \E j \in HandedAt(n) : j < i

\* C26: within one table, every page is requested before the rows of any page
\* are transformed and handed to the loader
C26_AllPagesBeforeHandOver ==
    \A i, j \in DOMAIN pageLog :
        (pageLog[i].op = "request" /\ pageLog[j].op = "handed") => i < j

\* a table of several pages has been loaded
C26_Witness ==
    /\ pagePc = "loaded"
    /\ Len(PageRequests) > 1
    /\ HandedAt(1) # {}

\* the table is as it was when its rows were counted
UpstreamUnchanged == pageUpstream = UpstreamOf(pageTotalRows)

\* C32: for a table whose content and row count do not change during the run,
\* the rows handed to the loader are the upstream rows, each once and in
\* upstream order
C32_UpstreamRowsExactlyOnce ==
    (pagePc = "loaded" /\ UpstreamUnchanged) => pageAllData = pageUpstream

(***************************************************************************)
(* Claims about schema inspection (SpecSchema)                             *)
(***************************************************************************)
\* C27: a call whose key has a stored result, from a successful call since
\* the cache was last cleared, returns that result and issues no query
C27_QueriesOncePerKey ==
    lastCall.known # Absent => (~lastCall.queried /\ lastCall.result = lastCall.known)

\* C28 as stated: whichever schema query raises, the call returns an empty
\* result and raises nothing into the run
C28_FailedQueryYieldsEmpty ==
    lastCall.failed => (~lastCall.raised /\ lastCall.result = Empty)

\* C28: a query of the schema inspector that raises (enum catalog, table
\* columns, foreign keys of a table, table list) makes the call return an
\* empty result and raise nothing into the run
C28_InspectorQueryYieldsEmpty ==
    (lastCall.failed /\ lastCall.key \in SchemaKeys) =>
        (~lastCall.raised /\ lastCall.result = Empty)

\* the foreign-key query of a table raised after other calls had succeeded
C28_Witness ==
    /\ lastCall.failed
    /\ lastCall.key = FkKey(1)
    /\ schemaCache[TablesKey] # Absent

(***************************************************************************)
(* Claims about enum coercion (SpecEnum)                                   *)
(***************************************************************************)
\* the rules of the cascade, each by what it matches
ExactMatch(v, valid) == ArrayIncludes(valid, v)

CaseInsensitiveMatch(v, valid) == CaseInsensitiveHits(v, valid) # {}

SubstringMatch(v, valid) == PartialHits(v, valid) # {}

SynonymMatch(v, valid) ==
    /\ MappedValue(toLowerCase(v)) # Undefined
    /\ ArrayIncludes(valid, MappedValue(toLowerCase(v)))

\* the result the first matching rule fixes
FirstRule(v, valid) ==
    IF ExactMatch(v, valid) THEN v
    ELSE IF CaseInsensitiveMatch(v, valid) THEN Find(valid, CaseInsensitiveHits(v, valid))
    ELSE IF SubstringMatch(v, valid) THEN Find(valid, PartialHits(v, valid))
    ELSE IF SynonymMatch(v, valid) THEN MappedValue(toLowerCase(v))
    ELSE IF valid # <<>> THEN valid[1]
    ELSE EnumNull

Coerced == enumPc \in {"value-done", "row-done"} /\ currentValue # EnumNull

\* C29: for a non-null text and any catalog the result of the coercion is the
\* one of the first rule that matches, in the order exact, case-insensitive,
\* substring (first label in catalog order), synonym, first label, null for
\* an empty catalog
C29_FirstMatchingRuleDecides ==
    Coerced => enumResult = FirstRule(currentValue, validValues)

\* no rule but the default applies to the value
DefaultCase ==
    /\ currentValue # EnumNull
    /\ validValues # <<>>
    /\ ~ExactMatch(currentValue, validValues)
    /\ ~CaseInsensitiveMatch(currentValue, validValues)
    /\ ~SubstringMatch(currentValue, validValues)
    /\ ~SynonymMatch(currentValue, validValues)

StatFields == DOMAIN NoTransformations

\* C30: when no exact, case-insensitive, substring or synonym rule matches a
\* non-null value of a row and the catalog is not empty, the value becomes the
\* first label and the counter of default substitutions goes up by exactly 1:
\* some counter of the service tells how often the default has been taken
C30_DefaultSubstitutionCounted ==
    /\ (enumPc = "row-done" /\ DefaultCase) => enumResult = validValues[1]
    /\ enumPc # "value-done" => \E f \in StatFields : transformationStats[f] = defaulted

\* the parameter insertBatch sends for a value of a column:
\* `if (value === undefined) value = null; if (value === '') value = null;`
PreparedText(value) ==
    IF value = Undefined THEN EnumNull
    ELSE IF value = <<>> THEN EnumNull
    ELSE value

\* C34: an empty string in an enum column of an upstream row reaches the
\* target as null: the value transformRow leaves in the column is sent by
\* insertBatch as null
C34_EmptyStringReachesTargetAsNull ==
    (enumPc = "row-done" /\ currentValue = <<>>) => PreparedText(enumResult) = EnumNull

(***************************************************************************)
(* Claims about the Transformer on rows (SpecRows)                         *)
(***************************************************************************)
\* column k of the table is an enum column for the call
IsEnumColumn(k) ==
    \E i \in DOMAIN RowSchema :
        RowSchema[i].column_name = k /\ RowSchema[i].udt_name \in DOMAIN trEnumMap

\* the labels of the type of column k
LabelsOfColumn(k) ==
    LabelsOf(trEnumMap,
             RowSchema[CHOOSE i \in DOMAIN RowSchema : RowSchema[i].column_name = k].udt_name)

\* C35: the Transformer returns as many rows as it was given, in their order
\* and with their keys; a value differs from the input only in an enum column
\* whose input value is not null, not undefined and not a label of the type;
\* and the row objects it was given are as they were
C35_ChangesOnlyUnknownEnumValues ==
    trPc = "done" =>
        /\ Len(trResult) = Len(trInput)
        /\ \A i \in DOMAIN trResult :
              /\ DOMAIN trResult[i] = DOMAIN trInput[i]
              /\ \A k \in DOMAIN trResult[i] :
                    trResult[i][k] # trInput[i][k] =>
                        /\ IsEnumColumn(k)
                        /\ trInput[i][k] # EnumNull
                        /\ trInput[i][k] # Undefined
                        /\ ~ArrayIncludes(LabelsOfColumn(k), trInput[i][k])
        /\ trData = trInput

\* two rows went through: the enum column of one was coerced, the other holds
\* null in it, and a text column holds a text that is not a label
C35_Witness ==
    /\ trPc = "done"
    /\ Len(trResult) = 2
    /\ \E i, j \in DOMAIN trResult :
          /\ "status" \in DOMAIN trInput[i]
          /\ trResult[i].status # trInput[i].status
          /\ "status" \in DOMAIN trInput[j]
          /\ trInput[j].status = EnumNull
          /\ "name" \in DOMAIN trInput[i]
          /\ trInput[i].name = trInput[i].status

(***************************************************************************)
(* Claims about the upstream session (SpecSession)                         *)
(***************************************************************************)
\* the methods C31 names
ExtractionMethods == { "getTables", "getTableRowCount", "queryTable", "extractAllTableData" }

(***************************************************************************)
(* C31  getTables, getTableRowCount, queryTable and extractAllTableData    *)
(* raise the not-authenticated error exactly when no authenticate call has *)
(* succeeded since construction or since the last logout; and after a      *)
(* logout, whether its session delete went through, failed or was not      *)
(* sent, the token is null, the client is unauthenticated and the call has *)
(* not raised.                                                             *)
(***************************************************************************)
C31_SessionGuardsAndLogout ==
    /\ sessLast.method \in ExtractionMethods =>
          /\ sessLast.raised <=> ~sessLast.since
          /\ sessLast.raised => sessLast.error = "Not authenticated"
    /\ sessLast.method = "logout" =>
          /\ sessToken = EnumNull
          /\ ~isAuthenticated
          /\ ~sessLast.raised

\* a logout of an authenticated client whose session delete failed
C31_Witness ==
    /\ sessLast.method = "logout"
    /\ sessLast.since
    /\ sessLast.deleteSent
    /\ sessLast.deleteFailed

(***************************************************************************)
(* Claims about the batches of the loader (SpecLoad)                       *)
(***************************************************************************)
\* the k-th batch of the call is the k-th slice of batchSize rows: it has the
\* size of that slice, and the statement it sent carries the rows of the
\* slice in their order
IsSlice(k) ==
    /\ loadOut.log[k].size =
          Min(options.batchSize, Len(data) - (k - 1) * options.batchSize)
    /\ ~loadOut.log[k].emptyCols
    /\ \A i \in 1..loadOut.log[k].size :
          loadOut.log[k].values[i] =
              RowParams(data[(k - 1) * options.batchSize + i], loadOut.log[k].cols)

\* a batch none of whose keys is a target column: counted, nothing sent
IsUnsentSlice(k) ==
    /\ loadOut.log[k].size =
          Min(options.batchSize, Len(data) - (k - 1) * options.batchSize)
    /\ loadOut.log[k].emptyCols
    /\ loadOut.log[k].values = <<>>

C37_OneStatementInFlight == Cardinality(inFlight) <= 1

(***************************************************************************)
(* Claims about the invocations of executeSync on one service (SpecRuns)   *)
(***************************************************************************)
\* the sync loop of the invocation has been through its last table
RunLoopDone ==
    /\ runPc \in {"sync", "settled"}
    /\ runIdx > Len(SortedTables(runTables, runDeps))

\* the loop has been through the table with this id
RunProcessed(id) ==
    \E i \in 1..(runIdx - 1) :
        /\ i <= Len(SortedTables(runTables, runDeps))
        /\ SortedTables(runTables, runDeps)[i] = id

\* C38: a table whose row count could not be obtained is treated as a table
\* of 0 rows: syncSingleTable is never called for it, it is not in the
\* failed-table list, and once the loop is over it has been passed as a
\* success
C38_UncountedTableIsEmptySuccess ==
    \A id \in runUncounted :
        /\ id \notin runExtracted
        /\ id \notin runFailedNow
        /\ runTables[id].name \notin Range(runStats.failedTables)
        /\ RunLoopDone => RunProcessed(id)

\* C39: an executeSync invocation whose loop went through its tables without
\* a failure resolves and performs no rollback, whatever the earlier
\* invocations on the service did
C39_OutcomeOfRunOnly ==
    (runPc = "settled" /\ RunLoopDone /\ runFailedNow = {}) =>
        /\ runResult = "resolved"
        /\ runRollbacks = 0

\* C40: when the first executeSync of a service resolves, the failed-table
\* list is empty and successfulTables equals totalTables, the number of
\* tables the upstream database lists
C40_ResolvedCountsEveryTable ==
    (runPc = "settled" /\ runResult = "resolved" /\ runNo = 1) =>
        /\ runStats.failedTables = <<>>
        /\ runStats.successfulTables = runStats.totalTables

====
